---- MODULE Spec2Model ----
(***************************************************************************)
(* Di-hydro: a model of the hydrology data-preparation scripts.            *)
(*                                                                         *)
(*   Spec          import_data.py: the station-map resolution and the      *)
(*                 daily download loop, over a file system that survives   *)
(*                 a killed run (utils/import_data_utils.py).              *)
(*   SpecSave      save_daily_data called repeatedly on one directory.     *)
(*   SpecResolver  get_station_id_basin_map on bounded entry lists.        *)
(*   SpecFlat      flat_ERA5_data and get_flat_index_to_coords on bounded  *)
(*                 gridded datasets (utils/preproc_utils.py).              *)
(*   SpecFlatten   preprocessing.py, stage 1: the flatten loop over the     *)
(*                 variables and the files of the ERA5 tree.               *)
(*   SpecTensor    tensor_ERA5_pytorch walking a directory tree.           *)
(*   SpecFilter    filter_river_data on a tree of daily station files.     *)
(*   SpecRiver     preprocessing.py, stage 3: the river loop and the merge. *)
(*   SpecOcr       extract_protok_data (utils/img_to_csv_utils.py).        *)
(*   SpecCds       CDS_API_download.py: the download loop over the months, *)
(*                 run again over the files the earlier runs left.         *)
(*                                                                         *)
(* Python values are modelled with their type: an int and the string of    *)
(* its digits are different dictionary keys. Strings are TLA+ strings,     *)
(* built with \o the way the f-strings build them.                         *)
(***************************************************************************)
EXTENDS Integers, Sequences, FiniteSets, TLC

VARIABLES
    \* ---- import_data.py
    run,          \* number of the current run of the script (1 = first)
    pc,           \* position of the script
    meta,         \* what the metadata request of this run met
    map_dict,     \* result of get_station_id_basin_map
    id_file,      \* content of station_id_name_map.txt
    st_idx,       \* index in station_ids of the station being processed
    st_basin,     \* basin name looked up for that station
    cur_date,     \* day being processed
    json_data,    \* body returned by the last fetch
    attempts,     \* fetches attempted in this run, in order
    msg,          \* last console report of the loop
    dirs,         \* directories that exist
    files,        \* path -> content of the daily files that exist
    torn,         \* paths of the files a killed run left truncated (history)
    \* ---- save_daily_data on one directory
    sv_files,     \* file name -> content, in the destination directory
    sv_calls,     \* successful calls so far: <<station id, date, table>>
    sv_format,    \* output format of the calls
    sv_bad,       \* calls made with a format that is not supported
    sv_err,       \* exception raised by the last call, if it raised
    \* ---- get_station_id_basin_map
    rs_list,      \* "ahs_list" of the response
    rs_out,       \* returned mapping
    rs_pc,
    \* ---- flat_ERA5_data / get_flat_index_to_coords
    fl_ds,        \* the dataset of the file
    fl_dim,       \* the `dimension` argument
    fl_res,       \* outcome of flat_ERA5_data
    fl_map,       \* result of get_flat_index_to_coords
    \* ---- preprocessing.py, stage 1 (flatten loop)
    fb_tree,      \* the files of era5_dir, in os.walk order
    fb_var,       \* index in era5_variables of the variable being processed
    fb_file,      \* index in fb_tree of the next file of the walk
    fb_records,   \* all_records of the current variable
    fb_out,       \* variable -> flattened table written for it
    fb_pc,        \* position of the stage
    fb_err,       \* exception that ended the script, if one did
    \* ---- tensor_ERA5_pytorch
    tn_tree,      \* the files of main_dir, in os.walk order
    tn_file,      \* index in tn_tree of the next file of the walk
    tn_tensors,   \* the list `tensors`
    tn_timestamps,\* the list `timestamps`
    tn_pc,        \* position of the call
    tn_ret,       \* what the call returned or raised
    \* ---- filter_river_data
    rf_tree,      \* the files of main_dir, in os.walk order
    rf_code,      \* river_code
    rf_ret,       \* value returned by filter_river_data
    rf_sorted,    \* the series after the sort of the script
    rf_pc,
    \* ---- preprocessing.py, stage 3 (river loop and merge)
    rv_tree,      \* the files of hydrometr_dir, in os.walk order
    rv_idx,       \* index in river_codes of the river being processed
    rv_all,       \* all_river_dfs
    rv_out,       \* file name -> table written in preproc_dir
    rv_pc,        \* position of the stage
    rv_err,       \* exception that ended the script, if one did
    \* ---- extract_protok_data
    oc_path,      \* image_path, a sequence of characters
    oc_image,     \* whether the file at image_path is an image that opens
    oc_lines,     \* the lines the recognition reads on the image
    oc_ret,       \* outcome of the call
    oc_pc,
    \* ---- CDS_API_download.py
    cd_run,       \* number of the current run of the script
    cd_pc,        \* position of the script
    cd_idx,       \* index of the (year, month) of the current iteration
    cd_zips,      \* name -> content of the zip files of the working directory
    cd_ncs,       \* path -> content of the files extracted under download_dir
    cd_requests,  \* download requests issued in this run, in order
    cd_extracts,  \* archives extract_nc has gone through in this run, in order
    cd_err,       \* exception that ended the run, if one did
    cd_completed  \* whether an earlier run went through every month (history)

ingestVars == <<run, pc, meta, map_dict, id_file,
                st_idx, st_basin, cur_date, json_data, attempts, msg, dirs, files, torn>>
saveVars == <<sv_files, sv_calls, sv_format, sv_bad, sv_err>>
resolverVars == <<rs_list, rs_out, rs_pc>>
flatVars == <<fl_ds, fl_dim, fl_res, fl_map>>
flattenVars == <<fb_tree, fb_var, fb_file, fb_records, fb_out, fb_pc, fb_err>>
tensorVars == <<tn_tree, tn_file, tn_tensors, tn_timestamps, tn_pc, tn_ret>>
filterVars == <<rf_tree, rf_code, rf_ret, rf_sorted, rf_pc>>
riverVars == <<rv_tree, rv_idx, rv_all, rv_out, rv_pc, rv_err>>
ocrVars == <<oc_path, oc_image, oc_lines, oc_ret, oc_pc>>
cdsVars == <<cd_run, cd_pc, cd_idx, cd_zips, cd_ncs, cd_requests, cd_extracts, cd_err,
             cd_completed>>
vars == <<ingestVars, saveVars, resolverVars, flatVars, flattenVars, tensorVars,
          filterVars, riverVars, ocrVars, cdsVars>>
notIngest == <<saveVars, resolverVars, flatVars, flattenVars, tensorVars, filterVars,
               riverVars, ocrVars, cdsVars>>
notSave == <<ingestVars, resolverVars, flatVars, flattenVars, tensorVars, filterVars,
             riverVars, ocrVars, cdsVars>>
notResolver == <<ingestVars, saveVars, flatVars, flattenVars, tensorVars, filterVars,
                 riverVars, ocrVars, cdsVars>>
notFlat == <<ingestVars, saveVars, resolverVars, flattenVars, tensorVars, filterVars,
             riverVars, ocrVars, cdsVars>>
notFlatten == <<ingestVars, saveVars, resolverVars, flatVars, tensorVars, filterVars,
                riverVars, ocrVars, cdsVars>>
notTensor == <<ingestVars, saveVars, resolverVars, flatVars, flattenVars, filterVars,
               riverVars, ocrVars, cdsVars>>
notFilter == <<ingestVars, saveVars, resolverVars, flatVars, flattenVars, tensorVars,
               riverVars, ocrVars, cdsVars>>
notRiver == <<ingestVars, saveVars, resolverVars, flatVars, flattenVars, tensorVars,
              filterVars, ocrVars, cdsVars>>
notOcr == <<ingestVars, saveVars, resolverVars, flatVars, flattenVars, tensorVars,
            filterVars, riverVars, cdsVars>>
notCds == <<ingestVars, saveVars, resolverVars, flatVars, flattenVars, tensorVars,
            filterVars, riverVars, ocrVars>>

(***************************************************************************)
(* Bounds of the model.                                                    *)
(***************************************************************************)
MaxDays == 2        \* days in the configured date range
MaxRuns == 2        \* runs of the download script over one file system
MaxCalls == 3       \* save_daily_data calls in SpecSave
MaxEntries == 2     \* entries in the metadata response
MaxT == 2           \* timesteps in a gridded file
MaxH == 2           \* latitude points of a grid
MaxW == 3           \* longitude points of a grid
MaxVars == 2        \* variables of era5_variables the flatten stage runs over
MaxFiles == 2       \* files of a directory tree
MaxRows == 3        \* rows in the station files of a tree, all together
MaxRivers == 2      \* rivers of river_codes that enter the merge
MaxStamps == 3      \* distinct instants in the files of the river stage
MaxLines == 26      \* lines of a recognized text
MaxYears == 2       \* years of the download loop
MaxMonths == 2      \* months of the download loop

(***************************************************************************)
(* Python values.                                                          *)
(***************************************************************************)
PyInt(n) == [t |-> "int", n |-> n, s |-> ""]
PyStr(s) == [t |-> "str", n |-> 0, s |-> s]

DigitChar(d) ==
    CASE d = 0 -> "0" [] d = 1 -> "1" [] d = 2 -> "2" [] d = 3 -> "3" [] d = 4 -> "4"
      [] d = 5 -> "5" [] d = 6 -> "6" [] d = 7 -> "7" [] d = 8 -> "8" [] d = 9 -> "9"

RECURSIVE IntToStr(_)
\* str(n) of a non-negative int
IntToStr(n) == IF n < 10 THEN DigitChar(n) ELSE IntToStr(n \div 10) \o DigitChar(n % 10)

RECURSIVE ZeroPad(_, _)
\* n in decimal, left-padded with zeros to width w (strftime's %Y, %m, %d)
ZeroPad(n, w) == IF w <= 1 THEN IntToStr(n) ELSE
                 IF n < 10 THEN "0" \o ZeroPad(n, w - 1)
                 ELSE ZeroPad(n \div 10, w - 1) \o DigitChar(n % 10)

\* str(x) of a Python int or str
Str(x) == IF x.t = "int" THEN PyStr(IntToStr(x.n)) ELSE x

\* Strings that the code searches are sequences of one-character strings.
RECURSIVE Join(_)
\* the string of a sequence of characters
Join(chars) == IF chars = <<>> THEN "" ELSE Head(chars) \o Join(Tail(chars))

\* s[i:i+len(sub)] == sub, i counted from 1
MatchesAt(s, i, sub) ==
    /\ i >= 1 /\ i + Len(sub) - 1 <= Len(s)
    /\ \A k \in 1..Len(sub) : s[i + k - 1] = sub[k]

\* sub in s
Contains(s, sub) == \E i \in 1..(Len(s) + 1) : MatchesAt(s, i, sub)

\* s.endswith(suffix)
EndsWith(s, suffix) == MatchesAt(s, Len(s) - Len(suffix) + 1, suffix)

(***************************************************************************)
(* datetime: calendar days.                                                *)
(***************************************************************************)
Date(y, m, d) == [y |-> y, m |-> m, d |-> d]

IsLeap(y) == (y % 4 = 0 /\ y % 100 # 0) \/ y % 400 = 0

DaysInMonth(y, m) ==
    IF m = 2 THEN (IF IsLeap(y) THEN 29 ELSE 28)
    ELSE IF m \in {4, 6, 9, 11} THEN 30 ELSE 31

\* date + timedelta(days=1)
PlusDay(dt) ==
    IF dt.d < DaysInMonth(dt.y, dt.m) THEN Date(dt.y, dt.m, dt.d + 1)
    ELSE IF dt.m < 12 THEN Date(dt.y, dt.m + 1, 1)
    ELSE Date(dt.y + 1, 1, 1)

RECURSIVE PlusDays(_, _)
PlusDays(dt, k) == IF k = 0 THEN dt ELSE PlusDays(PlusDay(dt), k - 1)

\* a <= b on datetimes
DateLE(a, b) ==
    \/ a.y < b.y
    \/ a.y = b.y /\ a.m < b.m
    \/ a.y = b.y /\ a.m = b.m /\ a.d <= b.d

\* date.strftime('%Y%m%d')
StrfYmd(dt) == ZeroPad(dt.y, 4) \o ZeroPad(dt.m, 2) \o ZeroPad(dt.d, 2)

\* os.path.join(a, b)
PathJoin(a, b) == a \o "/" \o b

(***************************************************************************)
(* utils/import_data_utils.py                                              *)
(***************************************************************************)
\* The dict built by the comprehension over station_list: the key is
\* entry["id"] as the JSON gave it; a later entry with the same id replaces
\* an earlier one.
EntriesToDict(station_list) ==
    LET keys == {station_list[i].id : i \in DOMAIN station_list}
        last(k) == CHOOSE i \in DOMAIN station_list :
                       /\ station_list[i].id = k
                       /\ \A j \in DOMAIN station_list : station_list[j].id = k => j <= i
    IN  [k \in keys |-> [name |-> station_list[last(k)].name,
                         basin |-> station_list[last(k)].basin]]

PyDict(d) == [kind |-> "dict", d |-> d]
PyNone == [kind |-> "None", d |-> EntriesToDict(<<>>)]

\* Which except clause of get_station_id_basin_map handles an exception whose
\* class has the given base classes: Python takes the first clause that matches.
ExceptClause(bases) ==
    IF "RequestException" \in bases THEN "request"
    ELSE IF "ValueError" \in bases THEN "value"
    ELSE "propagate"

\* The classes of the exception resp.json() raises on a malformed body. The
\* installed requests decides: json.JSONDecodeError (a ValueError) before 2.27,
\* requests.exceptions.JSONDecodeError (a RequestException and a ValueError)
\* from 2.27 on.
JsonErrorBases == {{"ValueError"}, {"RequestException", "ValueError"}}

\* Responses the metadata endpoint can give: a transport/HTTP failure, a body
\* that is not JSON, a JSON object with its "ahs_list".
TransportFailure == [kind |-> "transport", bases |-> {"RequestException"}, list |-> <<>>]
MalformedJson(bases) == [kind |-> "malformed", bases |-> bases, list |-> <<>>]
OkResponse(station_list) == [kind |-> "ok", bases |-> {}, list |-> station_list]

\* mutant: the RequestException clause returns nothing
get_station_id_basin_map_noReturn(resp) ==
    IF resp.kind = "ok"
    THEN [ret |-> PyDict(EntriesToDict(resp.list)), report |-> "none"]
    ELSE [ret |-> PyNone, report |-> "Error fetchin station data"]

\* get_station_id_basin_map: the value returned and the report printed.
get_station_id_basin_map(resp) ==
    IF resp.kind = "ok"
    THEN [ret |-> PyDict(EntriesToDict(resp.list)), report |-> "none"]
    ELSE CASE ExceptClause(resp.bases) = "request" ->
                  [ret |-> PyDict(EntriesToDict(<<>>)), report |-> "Error fetchin station data"]
           [] ExceptClause(resp.bases) = "value" ->
                  [ret |-> PyNone, report |-> "Error while parsing JSON data"]

\* dict.get(key, default) on the mapping, then .get("basin", "Unknown")
LookupBasin(m, station) ==
    LET key == Str(PyInt(station))
    IN  IF key \in DOMAIN m.d THEN m.d[key].basin ELSE "Unknown"

\* mutant: the column is copied under the new name and kept under the old
RenameColumn_keepOld(row, old, new) ==
    IF old \notin DOMAIN row THEN row
    ELSE [c \in DOMAIN row \cup {new} |-> IF c = new THEN row[old] ELSE row[c]]

\* pd.DataFrame(rec) followed by rename(columns={old: new}): every row's
\* field `old`, when there is one, becomes `new`.
RenameColumn(row, old, new) ==
    IF old \notin DOMAIN row THEN row
    ELSE [c \in (DOMAIN row \ {old}) \cup {new} |->
              IF c = new THEN row[old] ELSE row[c]]

DataFrame(rec) == [i \in DOMAIN rec |-> RenameColumn(rec[i], "kota", "elev")]

\* f"station_{station_id}_{date.strftime('%Y%m%d')}.<ext>"
FileName(station_id, date, ext) ==
    "station_" \o IntToStr(station_id) \o "_" \o StrfYmd(date) \o "." \o ext

\* mutant: a format that is not known is written as csv
save_daily_data_otherAsCsv(data, station_id, date, data_dir, format) ==
    [raised |-> FALSE,
     path |-> PathJoin(data_dir, FileName(station_id, date,
                                          IF format = "parquet" THEN format ELSE "csv")),
     content |-> [complete |-> TRUE, rows |-> DataFrame(data.rec)]]

\* save_daily_data: the file it writes, or the ValueError of an unknown format.
save_daily_data(data, station_id, date, data_dir, format) ==
    IF format \in {"csv", "parquet"}
    THEN [raised |-> FALSE,
          path |-> PathJoin(data_dir, FileName(station_id, date, format)),
          content |-> [complete |-> TRUE, rows |-> DataFrame(data.rec)]]
    ELSE [raised |-> TRUE, path |-> "", content |-> [complete |-> TRUE, rows |-> <<>>]]

\* What a write that stopped part-way leaves: the file opened for writing,
\* with only the first k rows in it.
Truncated(content, k) == [complete |-> FALSE, rows |-> SubSeq(content.rows, 1, k)]

\* mutant: an existing file is appended to
WriteFile_append(fs, path, content) ==
    [p \in DOMAIN fs \cup {path} |->
        IF p # path THEN fs[p]
        ELSE IF path \in DOMAIN fs
             THEN [complete |-> content.complete, rows |-> fs[path].rows \o content.rows]
             ELSE content]

\* to_csv / to_parquet: the file at `path` is created or replaced
WriteFile(fs, path, content) ==
    [p \in DOMAIN fs \cup {path} |-> IF p = path THEN content ELSE fs[p]]

(***************************************************************************)
(* import_data.py: configuration and environment of a run.                 *)
(***************************************************************************)
output_dir == "./hydrometrological_data"

station_ids == <<239>>

\* date - timedelta(days=1)
MinusDay(dt) ==
    IF dt.d > 1 THEN Date(dt.y, dt.m, dt.d - 1)
    ELSE IF dt.m > 1 THEN Date(dt.y, dt.m - 1, DaysInMonth(dt.y, dt.m - 1))
    ELSE Date(dt.y - 1, 12, 31)

RECURSIVE MinusDays(_, _)
MinusDays(dt, k) == IF k = 0 THEN dt ELSE MinusDays(MinusDay(dt), k - 1)

\* The configured range ends on 2020-01-01; the model runs its last MaxDays
\* days, which cross the year.
end_date == Date(2020, 1, 1)
start_date == MinusDays(end_date, MaxDays - 1)

\* Entry lists of the metadata response used by the download script: the
\* station 239 with its id as a JSON string or as a JSON number, or absent.
Entry(id, name, basin) == [id |-> id, name |-> name, basin |-> basin]
ScriptResponses ==
    {TransportFailure}
    \cup {MalformedJson(b) : b \in JsonErrorBases}
    \cup {OkResponse(l) : l \in {<<>>,
                                 <<Entry(PyStr("239"), "Bagrdan", "Velika Morava")>>,
                                 <<Entry(PyInt(239), "Bagrdan", "Velika Morava")>>}}

\* Rows of a day, and the bodies the daily endpoint returns.
RowA == [level |-> 10, battery |-> 12, kota |-> 100]
RowB == [level |-> 11, battery |-> 13, kota |-> 100]
Body(has_rec, rec) == [has_rec |-> has_rec, rec |-> rec]
Bodies == {Body(FALSE, <<>>), Body(TRUE, <<>>), Body(TRUE, <<RowA>>), Body(TRUE, <<RowB>>)}

Report(kind, station, date) == [kind |-> kind, station |-> station, date |-> date]
NoFiles == [p \in {} |-> [complete |-> TRUE, rows |-> <<>>]]

station == station_ids[st_idx]

\* Directory of the station and year: ./output_dir/{basin - ID}/{year}
station_dir == PathJoin(output_dir, st_basin \o " - " \o IntToStr(station))
station_path == PathJoin(station_dir, IntToStr(cur_date.y))

ScriptStart ==
    /\ pc = "resolve"
    /\ meta = "none"
    /\ map_dict = PyNone
    /\ st_idx = 1
    /\ st_basin = ""
    /\ cur_date = start_date
    /\ json_data = Body(FALSE, <<>>)
    /\ attempts = <<>>
    /\ msg = Report("none", 0, start_date)

InitIngest ==
    /\ run = 1
    /\ ScriptStart
    /\ id_file = [written |-> FALSE, obj |-> PyNone]
    /\ dirs = {output_dir}
    /\ files = NoFiles
    /\ torn = {}

(***************************************************************************)
(* import_data.py: the script, one action per step.                        *)
(***************************************************************************)
\* line 76: map_dict = get_station_id_basin_map(station_map_url)
ResolveMap ==
    /\ pc = "resolve"
    /\ UNCHANGED notIngest
    /\ \E resp \in ScriptResponses :
          /\ meta' = resp.kind
          /\ map_dict' = get_station_id_basin_map(resp).ret
    /\ pc' = "dump"
    /\ UNCHANGED <<run, id_file, st_idx, st_basin, cur_date, json_data,
                   attempts, msg, dirs, files, torn>>

\* lines 78-79: json.dump(map_dict, file)
DumpMap ==
    /\ pc = "dump"
    /\ UNCHANGED notIngest
    /\ id_file' = [written |-> TRUE, obj |-> map_dict]
    /\ pc' = "station"
    /\ UNCHANGED <<run, meta, map_dict, st_idx, st_basin, cur_date, json_data,
                   attempts, msg, dirs, files, torn>>

\* lines 85-92: the next station of the for loop; map_dict.get on None raises
\* AttributeError outside any try, which ends the script.
StationBegin ==
    /\ pc = "station"
    /\ UNCHANGED notIngest
    /\ IF st_idx > Len(station_ids)
       THEN pc' = "done" /\ UNCHANGED <<st_basin, cur_date, msg>>
       ELSE IF map_dict.kind = "None"
       THEN /\ pc' = "aborted"
            /\ msg' = Report("traceback", station, start_date)
            /\ UNCHANGED <<st_basin, cur_date>>
       ELSE /\ st_basin' = LookupBasin(map_dict, station)
            /\ cur_date' = start_date
            /\ pc' = "while"
            /\ UNCHANGED msg
    /\ UNCHANGED <<run, meta, map_dict, id_file, st_idx, json_data,
                   attempts, dirs, files, torn>>

\* line 96, condition false: the while loop of this station ends
StationEnd ==
    /\ pc = "while"
    /\ UNCHANGED notIngest
    /\ ~DateLE(cur_date, end_date)
    /\ st_idx' = st_idx + 1
    /\ pc' = "station"
    /\ UNCHANGED <<run, meta, map_dict, id_file, st_basin, cur_date, json_data,
                   attempts, msg, dirs, files, torn>>

\* mutant: the loop is entered before the mapping file is written
FetchStart_beforeDump ==
    /\ pc \in {"dump", "while"}
    /\ UNCHANGED notIngest
    /\ DateLE(cur_date, end_date)
    /\ attempts' = Append(attempts, <<station, cur_date>>)
    /\ msg' = Report("request", station, cur_date)
    /\ pc' = "fetching"
    /\ UNCHANGED <<run, meta, map_dict, id_file, st_idx, st_basin, cur_date,
                   json_data, dirs, files, torn>>

\* lines 96-98: the request of fetch_hydrometr_data is sent
FetchStart ==
    /\ pc = "while"
    /\ UNCHANGED notIngest
    /\ DateLE(cur_date, end_date)
    /\ attempts' = Append(attempts, <<station, cur_date>>)
    /\ msg' = Report("request", station, cur_date)                 \* print(url)
    /\ pc' = "fetching"
    /\ UNCHANGED <<run, meta, map_dict, id_file, st_idx, st_basin, cur_date,
                   json_data, dirs, files, torn>>

\* where the script goes after the except clause of lines 111-112 (mutant:
\* the error leaves the loop)
AfterError_abort == "aborted"
AfterError == "advance"

\* fetch_hydrometr_data raises (requests.get, raise_for_status, resp.json):
\* lines 111-112 report it
FetchRaises ==
    /\ pc = "fetching"
    /\ UNCHANGED notIngest
    /\ msg' = Report("error", station, cur_date)
    /\ pc' = AfterError
    /\ UNCHANGED <<run, meta, map_dict, id_file, st_idx, st_basin, cur_date,
                   json_data, attempts, dirs, files, torn>>

\* fetch_hydrometr_data returns the parsed body
FetchReturns ==
    /\ pc = "fetching"
    /\ UNCHANGED notIngest
    /\ \E body \in Bodies : json_data' = body
    /\ msg' = Report("fetched", station, cur_date)    \* print of line 112
    /\ pc' = "check"
    /\ UNCHANGED <<run, meta, map_dict, id_file, st_idx, st_basin, cur_date,
                   attempts, dirs, files, torn>>

\* mutant: only the presence of the key is tested
HasData_keyOnly(body) == body.has_rec
\* line 100: "rec" in json_data and json_data["rec"]
HasData(body) == body.has_rec /\ body.rec # <<>>

\* lines 100-105 and 108-109: with data, the station/year directory is made
\* and the writer is entered; without, the day is reported as having no data
CheckRec ==
    /\ pc = "check"
    /\ UNCHANGED notIngest
    /\ IF HasData(json_data)
       THEN /\ dirs' = dirs \cup {station_dir, station_path}
            /\ pc' = "saving"
            /\ UNCHANGED msg
       ELSE /\ msg' = Report("nodata", station, cur_date)
            /\ pc' = "advance"
            /\ UNCHANGED dirs
    /\ UNCHANGED <<run, meta, map_dict, id_file, st_idx, st_basin, cur_date,
                   json_data, attempts, files, torn>>

\* the call of line 107
DailySave == save_daily_data(json_data, station, cur_date, station_path, "csv")

\* mutant: a day whose file exists is not written again
SaveReturns_skipExisting ==
    /\ pc = "saving"
    /\ UNCHANGED notIngest
    /\ files' = IF DailySave.path \in DOMAIN files THEN files
                ELSE WriteFile(files, DailySave.path, DailySave.content)
    /\ pc' = "advance"
    /\ UNCHANGED <<run, meta, map_dict, id_file, st_idx, st_basin, cur_date,
                   json_data, attempts, msg, dirs, torn>>

\* line 107: save_daily_data returns, the file is written
SaveReturns ==
    /\ pc = "saving"
    /\ UNCHANGED notIngest
    /\ files' = WriteFile(files, DailySave.path, DailySave.content)
    /\ pc' = "advance"
    /\ UNCHANGED <<run, meta, map_dict, id_file, st_idx, st_basin, cur_date,
                   json_data, attempts, msg, dirs, torn>>

\* line 107: save_daily_data raises (the file cannot be opened, or the write
\* fails part-way): lines 111-112 report it
SaveRaises ==
    /\ pc = "saving"
    /\ UNCHANGED notIngest
    /\ \/ UNCHANGED files
       \/ \E k \in 0..(Len(DailySave.content.rows) - 1) :
             files' = WriteFile(files, DailySave.path, Truncated(DailySave.content, k))
    /\ msg' = Report("error", station, cur_date)
    /\ pc' = AfterError
    /\ UNCHANGED <<run, meta, map_dict, id_file, st_idx, st_basin, cur_date,
                   json_data, attempts, dirs, torn>>

\* the process dies in the middle of the write of line 107 (modelled while a
\* later run remains to be started)
KilledMidWrite ==
    /\ pc = "saving"
    /\ UNCHANGED notIngest
    /\ run < MaxRuns
    /\ \E k \in 0..(Len(DailySave.content.rows) - 1) :
          files' = WriteFile(files, DailySave.path, Truncated(DailySave.content, k))
    /\ torn' = torn \cup {DailySave.path}
    /\ pc' = "killed"
    /\ UNCHANGED <<run, meta, map_dict, id_file, st_idx, st_basin, cur_date,
                   json_data, attempts, msg, dirs>>

\* line 114: cur_date += delta_t
Advance ==
    /\ pc = "advance"
    /\ UNCHANGED notIngest
    /\ cur_date' = PlusDay(cur_date)
    /\ pc' = "while"
    /\ UNCHANGED <<run, meta, map_dict, id_file, st_idx, st_basin, json_data,
                   attempts, msg, dirs, files, torn>>

\* the script is started again after the kill: what is on disk stays
Rerun ==
    /\ pc = "killed"
    /\ UNCHANGED notIngest
    /\ run' = run + 1
    /\ pc' = "resolve"
    /\ meta' = "none"
    /\ map_dict' = PyNone
    /\ st_idx' = 1
    /\ st_basin' = ""
    /\ cur_date' = start_date
    /\ json_data' = Body(FALSE, <<>>)
    /\ attempts' = <<>>
    /\ msg' = Report("none", 0, start_date)
    /\ UNCHANGED <<id_file, dirs, files, torn>>

NextIngest ==
    \/ ResolveMap \/ DumpMap \/ StationBegin \/ StationEnd \/ FetchStart
    \/ FetchRaises \/ FetchReturns \/ CheckRec \/ SaveReturns \/ SaveRaises
    \/ KilledMidWrite \/ Advance \/ Rerun

(***************************************************************************)
(* save_daily_data called repeatedly on one destination directory.         *)
(***************************************************************************)
SvDir == "dest"
SvStations == {23, 239}
SvDates == {Date(2019, 6, 10), Date(2020, 1, 5)}
SvBodies == {Body(TRUE, <<RowA>>), Body(TRUE, <<RowB, RowA>>)}
SvOtherFormats == {"CSV", "json", ""}

InitSave ==
    /\ sv_format \in {"csv", "parquet"}
    /\ sv_files = NoFiles
    /\ sv_calls = <<>>
    /\ sv_bad = 0
    /\ sv_err = "none"

\* one call of save_daily_data that returns
SaveCall ==
    /\ Len(sv_calls) + sv_bad < MaxCalls
    /\ UNCHANGED notSave
    /\ \E id \in SvStations, date \in SvDates, data \in SvBodies :
          LET r == save_daily_data(data, id, date, SvDir, sv_format)
          IN  /\ ~r.raised
              /\ sv_files' = WriteFile(sv_files, r.path, r.content)
              /\ sv_calls' = Append(sv_calls, [id |-> id, date |-> date, data |-> data])
    /\ sv_err' = "none"
    /\ UNCHANGED <<sv_format, sv_bad>>

\* one call of save_daily_data with a format that is neither "csv" nor
\* "parquet": the comparison is with the exact strings
SaveCallOtherFormat ==
    /\ Len(sv_calls) + sv_bad < MaxCalls
    /\ UNCHANGED notSave
    /\ \E id \in SvStations, date \in SvDates, data \in SvBodies, format \in SvOtherFormats :
          LET r == save_daily_data(data, id, date, SvDir, format)
          IN  /\ sv_files' = IF r.raised THEN sv_files
                             ELSE WriteFile(sv_files, r.path, r.content)
              /\ sv_err' = IF r.raised THEN "ValueError" ELSE "none"
    /\ sv_bad' = sv_bad + 1
    /\ UNCHANGED <<sv_format, sv_calls>>

(***************************************************************************)
(* get_station_id_basin_map on the entry lists of a response.              *)
(***************************************************************************)
RsIds == {PyStr("237"), PyStr("239"), PyInt(237), PyInt(239)}
RsEntries == {Entry(id, nb[1], nb[2]) :
                 id \in RsIds, nb \in {<<"Bagrdan", "Velika Morava">>, <<"Ljubicevski Most", "Morava">>}}

RECURSIVE SeqsUpTo(_, _)
\* the sequences over S of length at most n
SeqsUpTo(S, n) ==
    IF n = 0 THEN {<<>>}
    ELSE LET shorter == SeqsUpTo(S, n - 1)
         IN  shorter \cup {Append(q, x) : q \in shorter, x \in S}

InitResolver ==
    /\ rs_list \in SeqsUpTo(RsEntries, MaxEntries)
    /\ rs_out = PyNone
    /\ rs_pc = "call"

\* the call of get_station_id_basin_map on a response with this entry list
ResolverCall ==
    /\ rs_pc = "call"
    /\ UNCHANGED notResolver
    /\ rs_out' = get_station_id_basin_map(OkResponse(rs_list)).ret
    /\ rs_pc' = "done"
    /\ UNCHANGED rs_list

(***************************************************************************)
(* utils/preproc_utils.py: flat_ERA5_data and get_flat_index_to_coords.    *)
(***************************************************************************)
DefaultDimension == 154     \* dimension=11*14

variable_name == "t2m"

\* Two fillings of the grids: every cell of the file different, and cells
\* that repeat.
CellValue(p, t, r, c) == IF p = 1 THEN 100 * t + 10 * r + c ELSE t + r * c

\* A gridded file: whether it opens, whether it holds the variable, the
\* variable's values in shape (time, lat, long), and the coordinates
\* (latitude descending, longitude ascending).
Dataset(opens, has_var, T, H, W, p) ==
    [opens |-> opens,
     has_var |-> has_var,
     var_data |-> [t \in 1..T |-> [r \in 1..H |-> [c \in 1..W |-> CellValue(p, t, r, c)]]],
     valid_time |-> [t \in 1..T |-> 1000 + t],
     latitude |-> [r \in 1..H |-> 46 - r],
     longitude |-> [c \in 1..W |-> 18 + c]]

Datasets ==
    {Dataset(TRUE, hv, T, H, W, p) :
        hv \in BOOLEAN, T \in 0..MaxT, H \in 1..MaxH, W \in 1..MaxW, p \in {1, 2}}
    \cup {Dataset(FALSE, FALSE, 0, 1, 1, 1)}

RECURSIVE Flatten_columnMajor(_)
\* mutant: the columns one after the other
Flatten_columnMajor(grid) ==
    IF grid = <<>> \/ grid[1] = <<>> THEN <<>>
    ELSE [r \in DOMAIN grid |-> grid[r][1]]
         \o Flatten_columnMajor([r \in DOMAIN grid |-> Tail(grid[r])])

RECURSIVE Flatten(_)
\* ndarray.flatten() of a 2D array: the rows one after the other
Flatten(grid) == IF grid = <<>> THEN <<>> ELSE Head(grid) \o Flatten(Tail(grid))

\* f"{variable_name}_{j}"
FieldName(name, j) == name \o "_" \o IntToStr(j)

\* lines 120-121: the record of one timestep, from its flattened values
FlatRecord(name, t, flat) ==
    LET fields == {FieldName(name, j) : j \in 0..(Len(flat) - 1)}
    IN  [f \in {"datetime"} \cup fields |->
            IF f = "datetime" THEN t
            ELSE flat[(CHOOSE j \in 0..(Len(flat) - 1) : FieldName(name, j) = f) + 1]]

Unbound == [bound |-> FALSE, v |-> <<>>]
Bound(v) == [bound |-> TRUE, v |-> v]

RECURSIVE FlatLoop(_, _, _, _, _)
\* lines 118-122: the loop over time_values; `flat` is first assigned in its body
FlatLoop(ds, name, i, file_record, flat) ==
    IF i > Len(ds.valid_time) THEN [file_record |-> file_record, flat |-> flat]
    ELSE LET flat_i == Flatten(ds.var_data[i])
         IN  FlatLoop(ds, name, i + 1,
                      Append(file_record, FlatRecord(name, ds.valid_time[i], flat_i)),
                      Bound(flat_i))

FlatResult(raised, records, alert) == [raised |-> raised, records |-> records, alert |-> alert]

\* flat_ERA5_data: what it raises, the records it returns, whether it printed
\* the ALERT of line 125
flat_ERA5_data(ds, name, dimension) ==
    IF ~ds.opens THEN FlatResult("UnboundLocalError", <<>>, FALSE)     \* line 111: ds
    ELSE IF ~ds.has_var THEN FlatResult("ValueError", <<>>, FALSE)     \* line 112
    ELSE LET end == FlatLoop(ds, name, 1, <<>>, Unbound)
         IN  IF ~end.flat.bound
             THEN FlatResult("UnboundLocalError", <<>>, FALSE)         \* line 124: flat
             ELSE FlatResult("none", end.file_record, Len(end.flat.v) # dimension)

NoMapping == [i \in {} |-> <<0, 0>>]

RECURSIVE CoordLoop(_, _, _, _, _, _)
\* lines 148-153: the two nested loops and their counter idx
CoordLoop(lats, lons, r, c, idx, mapping) ==
    IF r > Len(lats) THEN mapping
    ELSE IF c > Len(lons) THEN CoordLoop(lats, lons, r + 1, 1, idx, mapping)
    ELSE CoordLoop(lats, lons, r, c + 1, idx + 1,
                   [k \in DOMAIN mapping \cup {idx} |->
                       IF k = idx THEN <<lats[r], lons[c]>> ELSE mapping[k]])

get_flat_index_to_coords(ds) == CoordLoop(ds.latitude, ds.longitude, 1, 1, 0, NoMapping)

InitFlat ==
    /\ fl_ds \in Datasets
    /\ fl_dim \in {DefaultDimension, Len(fl_ds.latitude) * Len(fl_ds.longitude)}
    /\ fl_res = FlatResult("uncalled", <<>>, FALSE)
    /\ fl_map = [called |-> FALSE, m |-> NoMapping]

\* flat_ERA5_data(file_path, var, dimension) on the file
FlatCall ==
    /\ fl_res.raised = "uncalled"
    /\ UNCHANGED notFlat
    /\ fl_res' = flat_ERA5_data(fl_ds, variable_name, fl_dim)
    /\ UNCHANGED <<fl_ds, fl_dim, fl_map>>

\* get_flat_index_to_coords on the opened dataset of the file
CoordsCall ==
    /\ ~fl_map.called
    /\ fl_ds.opens
    /\ UNCHANGED notFlat
    /\ fl_map' = [called |-> TRUE, m |-> get_flat_index_to_coords(fl_ds)]
    /\ UNCHANGED <<fl_ds, fl_dim, fl_res>>

(***************************************************************************)
(* preprocessing.py, stage 1: the flatten loop.                            *)
(***************************************************************************)
\* era5_variables = ['t2m', 'sde', 'ssro', 'ssrd', 'e', 'tp']; the model runs
\* the loop over the first MaxVars of them.
era5_variables == SubSeq(<<"t2m", "sde", "ssro", "ssrd", "e", "tp">>, 1, MaxVars)

\* position of a variable in the list of the script
VarIndex(var) == CHOOSE i \in 1..6 : <<"t2m", "sde", "ssro", "ssrd", "e", "tp">>[i] = var

\* A file of the ERA5 tree: its extension and, for a NetCDF file, the
\* variables it holds with their values in shape (time, lat, long), its
\* valid_time axis starting after t0, and its coordinates.
Era5File(ext, holds, T, H, W, t0) ==
    [ext |-> ext,
     opens |-> TRUE,
     holds |-> holds,
     data |-> [v \in holds |->
                  [t \in 1..T |-> [r \in 1..H |-> [c \in 1..W |->
                      1000 * VarIndex(v) + CellValue(1, t0 + t, r, c)]]]],
     valid_time |-> [t \in 1..T |-> 1000 + t0 + t],
     latitude |-> [r \in 1..H |-> 46 - r],
     longitude |-> [c \in 1..W |-> 18 + c]]

\* xr.open_dataset(file_path) as flat_ERA5_data sees it for one variable
AsDataset(file, var) ==
    [opens |-> file.opens,
     has_var |-> var \in file.holds,
     var_data |-> IF var \in file.holds THEN file.data[var] ELSE <<>>,
     valid_time |-> file.valid_time,
     latitude |-> file.latitude,
     longitude |-> file.longitude]

\* a file of the tree that is not a NetCDF file
OtherFile == Era5File("txt", {}, 0, 1, 1, 0)

\* a file named *.nc that xr.open_dataset cannot read
CorruptFile == [Era5File("nc", {}, 0, 1, 1, 0) EXCEPT !.opens = FALSE]

\* The files the flatten stage meets: monthly files of 1 x 2 cells holding any
\* of the variables, with any number of timesteps, a non-NetCDF file and an
\* unreadable one.
FlattenFiles ==
    {Era5File("nc", holds, T, 1, 2, 0) :
        holds \in SUBSET {era5_variables[i] : i \in DOMAIN era5_variables}, T \in 0..MaxT}
    \cup {OtherFile, CorruptFile}

RECURSIVE InsertByDatetime(_, _)
InsertByDatetime(sorted, rec) ==
    IF sorted = <<>> THEN <<rec>>
    ELSE IF rec["datetime"] < Head(sorted)["datetime"] THEN <<rec>> \o sorted
    ELSE <<Head(sorted)>> \o InsertByDatetime(Tail(sorted), rec)

RECURSIVE SortByDatetime(_)
\* df.sort_values("datetime").reset_index(drop=True); rows of equal datetime
\* are left in their order
SortByDatetime(records) ==
    IF records = <<>> THEN <<>>
    ELSE InsertByDatetime(SortByDatetime(SubSeq(records, 1, Len(records) - 1)),
                          records[Len(records)])

NoTables == [v \in {} |-> <<>>]

InitFlatten ==
    /\ fb_tree \in SeqsUpTo(FlattenFiles, MaxFiles)
    /\ fb_var = 1
    /\ fb_file = 1
    /\ fb_records = <<>>
    /\ fb_out = NoTables
    /\ fb_pc = "walk"
    /\ fb_err = "none"

fb_variable == era5_variables[fb_var]

\* the call of line 77 on the next file of the walk
FlattenNext == flat_ERA5_data(AsDataset(fb_tree[fb_file], fb_variable), fb_variable,
                              DefaultDimension)

\* lines 71-73: a file of the walk that does not end with '.nc' is passed over
FlattenSkipFile ==
    /\ fb_pc = "walk" /\ fb_file <= Len(fb_tree)
    /\ UNCHANGED notFlatten
    /\ fb_tree[fb_file].ext # "nc"
    /\ fb_file' = fb_file + 1
    /\ UNCHANGED <<fb_tree, fb_var, fb_records, fb_out, fb_pc, fb_err>>

\* lines 77-78: flat_ERA5_data returns, its records extend all_records
FlattenFile ==
    /\ fb_pc = "walk" /\ fb_file <= Len(fb_tree)
    /\ UNCHANGED notFlatten
    /\ fb_tree[fb_file].ext = "nc"
    /\ FlattenNext.raised = "none"
    /\ fb_records' = fb_records \o FlattenNext.records
    /\ fb_file' = fb_file + 1
    /\ UNCHANGED <<fb_tree, fb_var, fb_out, fb_pc, fb_err>>

\* line 77: flat_ERA5_data raises; the call is in no try block, so the
\* exception ends the script
FlattenFileRaises ==
    /\ fb_pc = "walk" /\ fb_file <= Len(fb_tree)
    /\ UNCHANGED notFlatten
    /\ fb_tree[fb_file].ext = "nc"
    /\ FlattenNext.raised # "none"
    /\ fb_err' = FlattenNext.raised
    /\ fb_pc' = "aborted"
    /\ UNCHANGED <<fb_tree, fb_var, fb_file, fb_records, fb_out>>

\* lines 82-88 after the walk: the table of the variable is sorted and
\* written, and the loop goes to the next variable; with no record the table
\* has no "datetime" column and line 83 raises KeyError
FlattenSave ==
    /\ fb_pc = "walk" /\ fb_file > Len(fb_tree)
    /\ UNCHANGED notFlatten
    /\ IF fb_records = <<>>
       THEN /\ fb_err' = "KeyError"
            /\ fb_pc' = "aborted"
            /\ UNCHANGED <<fb_var, fb_file, fb_records, fb_out>>
       ELSE /\ fb_out' = [v \in DOMAIN fb_out \cup {fb_variable} |->
                             IF v = fb_variable THEN SortByDatetime(fb_records)
                             ELSE fb_out[v]]
            /\ fb_records' = <<>>
            /\ fb_file' = 1
            /\ IF fb_var < Len(era5_variables)
               THEN fb_var' = fb_var + 1 /\ UNCHANGED fb_pc
               ELSE fb_pc' = "done" /\ UNCHANGED fb_var
            /\ UNCHANGED fb_err
    /\ UNCHANGED fb_tree

(***************************************************************************)
(* utils/preproc_utils.py: tensor_ERA5_pytorch.                            *)
(***************************************************************************)
\* The files a walk of tensor_ERA5_pytorch meets: files that hold the
\* variable or another one, of 1 x 2 or 2 x 2 cells, with a time axis that
\* starts early or late, a non-NetCDF file and an unreadable one.
TensorFiles ==
    {Era5File("nc", {v}, T, H, 2, t0) :
        v \in {"t2m", "sde"}, T \in 0..MaxT, H \in {1, 2}, t0 \in {0, 10}}
    \cup {OtherFile, CorruptFile}

\* values of the arrays are float64 or float32 in the files; the ones of the
\* model are integers below 2^24, which float32 holds exactly
AsFloat32(x) == IF x <= 16777216 THEN x ELSE 2 * ((x + 1) \div 2)

\* tensor.astype(np.float32) on the stacked array of shape (N, 1, H, W)
AsTypeFloat32(tensor) ==
    [n \in DOMAIN tensor |-> [ch \in DOMAIN tensor[n] |-> [r \in DOMAIN tensor[n][ch] |->
        [c \in DOMAIN tensor[n][ch][r] |-> AsFloat32(tensor[n][ch][r][c])]]]]

\* lines 199-206: the slices of one file, grid[np.newaxis, :, :] of every
\* timestep in file order
FileSlices(file, variable) ==
    [i \in 1..Len(file.data[variable]) |-> <<file.data[variable][i]>>]

\* mutant: the timestamps of a file are appended last first
FileStamps_reversed(file, variable) ==
    [i \in 1..Len(file.data[variable]) |->
        file.valid_time[Len(file.data[variable]) + 1 - i]]

\* lines 195, 199, 207: the timestamp of every timestep, in file order
FileStamps(file, variable) ==
    [i \in 1..Len(file.data[variable]) |-> file.valid_time[i]]

\* shape of a slice (1, H, W)
SliceShape(slice) == <<Len(slice), Len(slice[1]), Len(slice[1][1])>>

\* np.stack(tensors): raises ValueError on an empty list and on arrays of
\* different shapes
np_stack(tensors) ==
    IF tensors = <<>> THEN [raised |-> "ValueError", tensor |-> <<>>]
    ELSE IF \E i, j \in DOMAIN tensors : SliceShape(tensors[i]) # SliceShape(tensors[j])
    THEN [raised |-> "ValueError", tensor |-> <<>>]
    ELSE [raised |-> "none", tensor |-> tensors]

TensorReturn(raised, tensor, timestamps) ==
    [raised |-> raised, tensor |-> tensor, timestamps |-> timestamps]

tn_variable == "t2m"

InitTensor ==
    /\ tn_tree \in SeqsUpTo(TensorFiles, MaxFiles)
    /\ tn_file = 1
    /\ tn_tensors = <<>>
    /\ tn_timestamps = <<>>
    /\ tn_pc = "walk"
    /\ tn_ret = TensorReturn("running", <<>>, <<>>)

\* lines 183-185: a file that does not end with '.nc' is passed over
TensorSkipFile ==
    /\ tn_pc = "walk" /\ tn_file <= Len(tn_tree)
    /\ UNCHANGED notTensor
    /\ tn_tree[tn_file].ext # "nc"
    /\ tn_file' = tn_file + 1
    /\ UNCHANGED <<tn_tree, tn_tensors, tn_timestamps, tn_pc, tn_ret>>

\* line 189: xr.open_dataset raises, outside any try
TensorOpenRaises ==
    /\ tn_pc = "walk" /\ tn_file <= Len(tn_tree)
    /\ UNCHANGED notTensor
    /\ tn_tree[tn_file].ext = "nc" /\ ~tn_tree[tn_file].opens
    /\ tn_pc' = "raised"
    /\ tn_ret' = TensorReturn("OpenError", <<>>, <<>>)
    /\ UNCHANGED <<tn_tree, tn_file, tn_tensors, tn_timestamps>>

\* lines 191-192: the file lacks the variable: continue
TensorLacksVariable ==
    /\ tn_pc = "walk" /\ tn_file <= Len(tn_tree)
    /\ UNCHANGED notTensor
    /\ tn_tree[tn_file].ext = "nc" /\ tn_tree[tn_file].opens
    /\ tn_variable \notin tn_tree[tn_file].holds
    /\ tn_file' = tn_file + 1
    /\ UNCHANGED <<tn_tree, tn_tensors, tn_timestamps, tn_pc, tn_ret>>

\* lines 195-207: every timestep of the file is appended to both lists
TensorFile ==
    /\ tn_pc = "walk" /\ tn_file <= Len(tn_tree)
    /\ UNCHANGED notTensor
    /\ tn_tree[tn_file].ext = "nc" /\ tn_tree[tn_file].opens
    /\ tn_variable \in tn_tree[tn_file].holds
    /\ tn_tensors' = tn_tensors \o FileSlices(tn_tree[tn_file], tn_variable)
    /\ tn_timestamps' = tn_timestamps \o FileStamps(tn_tree[tn_file], tn_variable)
    /\ tn_file' = tn_file + 1
    /\ UNCHANGED <<tn_tree, tn_pc, tn_ret>>

\* lines 210-212 after the walk: the slices are stacked and returned with the
\* timestamps, or np.stack raises
TensorStack ==
    /\ tn_pc = "walk" /\ tn_file > Len(tn_tree)
    /\ UNCHANGED notTensor
    /\ LET st == np_stack(tn_tensors)
       IN  IF st.raised # "none"
           THEN /\ tn_pc' = "raised"
                /\ tn_ret' = TensorReturn(st.raised, <<>>, <<>>)
           ELSE /\ tn_pc' = "returned"
                /\ tn_ret' = TensorReturn("none", AsTypeFloat32(st.tensor), tn_timestamps)
    /\ UNCHANGED <<tn_tree, tn_file, tn_tensors, tn_timestamps>>

(***************************************************************************)
(* utils/preproc_utils.py: filter_river_data.                              *)
(***************************************************************************)
battery_treshold == 12      \* battery_treshold = 12.0

C_station == <<"s", "t", "a", "t", "i", "o", "n", "_">>
C_csv == <<".", "c", "s", "v">>
C_parquet == <<".", "p", "a", "r", "q", "u", "e", "t">>
C_day == <<"2", "0", "1", "9", "0", "6", "1", "0">>

\* f'station_{river_code}_'
StationTag(river_code) == C_station \o river_code \o <<"_">>

\* name of a daily file as save_daily_data writes it
DailyName(code, ext) == StationTag(code) \o C_day \o ext

\* pd.to_datetime(sdate + ' ' + stime): day number and hour to hours
ToDatetime(sdate, stime) == 24 * sdate + stime

ObsRow(sdate, stime, battery, level) ==
    [sdate |-> sdate, stime |-> stime, battery |-> battery, level |-> level]

\* Rows of the daily files: at the two thresholds, above them, below the
\* battery threshold, below level zero; two instants, each met more than once
\* and the later one first.
ObsRows ==
    {ObsRow(2, 0, 12, 0), ObsRow(1, 23, 13, 7), ObsRow(2, 0, 13, 5),
     ObsRow(1, 23, 11, 9), ObsRow(2, 0, 13, 0 - 1)}

RiverFile(name, rows) == [name |-> name, rows |-> rows]

\* files of the station asked for hold any rows; the tree also has files of
\* another station id and files that are not csv
RiverFilesWithin(n) ==
    {RiverFile(DailyName(<<"2", "3", "9">>, C_csv), rows) : rows \in SeqsUpTo(ObsRows, n)}
    \cup (IF n < 1 THEN {}
          ELSE {RiverFile(DailyName(<<"2", "3">>, C_csv), <<ObsRow(2, 0, 13, 3)>>),
                RiverFile(DailyName(<<"2", "3", "9">>, C_parquet), <<ObsRow(2, 0, 13, 4)>>)})

RECURSIVE RiverTrees(_, _)
\* the trees of at most n_files files holding at most n_rows rows together
RiverTrees(n_files, n_rows) ==
    IF n_files = 0 THEN {<<>>}
    ELSE {<<>>} \cup
         UNION {{<<f>> \o rest : rest \in RiverTrees(n_files - 1, n_rows - Len(f.rows))} :
                   f \in RiverFilesWithin(n_rows)}

\* line 235: f'river{river_code}_level'
RiverName(river_code) == "river" \o Join(river_code) \o "_level"

\* line 242: the files the walk takes
IsRiverFile(file, river_code) ==
    EndsWith(file.name, C_csv) /\ Contains(file.name, StationTag(river_code))

\* mutant: a row passes when either test holds
PassesFilter_either(row, treshold) == row.battery >= treshold \/ row.level >= 0

\* line 248: (df['battery'] >= battery_treshold) & (df['level'] >= 0)
PassesFilter(row, treshold) == row.battery >= treshold /\ row.level >= 0

\* lines 246-250: the frame of one file: datetime and the level column under
\* the name of the river, of the rows that pass the filter
FileFrame(file, river_code, treshold) ==
    LET kept == SelectSeq(file.rows, LAMBDA row : PassesFilter(row, treshold))
    IN  [i \in DOMAIN kept |->
            [c \in {"datetime", RiverName(river_code)} |->
                IF c = "datetime" THEN ToDatetime(kept[i].sdate, kept[i].stime)
                ELSE kept[i].level]]

RECURSIVE FilterWalk(_, _, _, _)
\* lines 239-252: the list dfs after the walk
FilterWalk(tree, k, river_code, treshold) ==
    IF k > Len(tree) THEN <<>>
    ELSE (IF IsRiverFile(tree[k], river_code)
          THEN <<FileFrame(tree[k], river_code, treshold)>> ELSE <<>>)
         \o FilterWalk(tree, k + 1, river_code, treshold)

RECURSIVE pd_concat(_)
\* pd.concat(dfs)
pd_concat(dfs) == IF dfs = <<>> THEN <<>> ELSE Head(dfs) \o pd_concat(Tail(dfs))

RECURSIVE DropLater(_, _, _)
DropLater(frame, i, seen) ==
    IF i > Len(frame) THEN <<>>
    ELSE IF frame[i]["datetime"] \in seen THEN DropLater(frame, i + 1, seen)
    ELSE <<frame[i]>> \o DropLater(frame, i + 1, seen \cup {frame[i]["datetime"]})

RECURSIVE DropEarlier(_, _, _)
DropEarlier(frame, i, seen) ==
    IF i < 1 THEN <<>>
    ELSE IF frame[i]["datetime"] \in seen THEN DropEarlier(frame, i - 1, seen)
    ELSE DropEarlier(frame, i - 1, seen \cup {frame[i]["datetime"]}) \o <<frame[i]>>

\* mutant: the last row of a datetime is kept
drop_duplicates_last(frame) == DropEarlier(frame, Len(frame), {})

\* frame.drop_duplicates('datetime'): the first row of every datetime is kept
drop_duplicates(frame) == DropLater(frame, 1, {})

SeriesNone == [none |-> TRUE, rows |-> <<>>]
Series(rows) == [none |-> FALSE, rows |-> rows]

\* mutant: None also when no row is left
filter_river_data_noneWhenEmpty(tree, river_code, treshold) ==
    LET dfs == FilterWalk(tree, 1, river_code, treshold)
    IN  IF pd_concat(dfs) # <<>> THEN Series(drop_duplicates(pd_concat(dfs)))
        ELSE SeriesNone

\* filter_river_data: the series, or None when no file matched
filter_river_data(tree, river_code, treshold) ==
    LET dfs == FilterWalk(tree, 1, river_code, treshold)
    IN  IF dfs # <<>> THEN Series(drop_duplicates(pd_concat(dfs))) ELSE SeriesNone

InitFilter ==
    /\ rf_tree \in RiverTrees(MaxFiles, MaxRows)
    /\ rf_code \in {<<"2", "3", "9">>, <<"2", "3">>}
    /\ rf_ret = SeriesNone
    /\ rf_sorted = <<>>
    /\ rf_pc = "call"

\* preprocessing.py line 152: river_df = filter_river_data(hydrometr_dir, code)
FilterCall ==
    /\ rf_pc = "call"
    /\ UNCHANGED notFilter
    /\ rf_ret' = filter_river_data(rf_tree, rf_code, battery_treshold)
    /\ rf_pc' = "returned"
    /\ UNCHANGED <<rf_tree, rf_code, rf_sorted>>

\* preprocessing.py lines 154-156: a series that is not None is sorted
FilterSort ==
    /\ rf_pc = "returned" /\ ~rf_ret.none
    /\ UNCHANGED notFilter
    /\ rf_sorted' = SortByDatetime(rf_ret.rows)
    /\ rf_pc' = "sorted"
    /\ UNCHANGED <<rf_tree, rf_code, rf_ret>>

(***************************************************************************)
(* preprocessing.py, stage 3: the river loop and the merge.                *)
(***************************************************************************)
AllRiverCodes ==
    <<<<"2", "3", "6">>, <<"2", "3", "7">>, <<"2", "3", "8">>, <<"2", "3", "9">>,
      <<"2", "4", "0">>>>

\* river_codes = ['236', '237', '238', '239', '240']; the model runs the loop
\* over the last MaxRivers + 1 of them, the excluded station 240 among them.
river_codes == SubSeq(AllRiverCodes, 5 - MaxRivers, 5)

excluded_stations == {<<"2", "4", "0">>}

merged_file_name == "tributaries_merged.parquet"

\* f'river_{code}_level_merged.parquet'
single_file_name(code) == "river_" \o Join(code) \o "_level_merged.parquet"

RECURSIVE DescendingSeq(_)
\* the elements of a set of numbers, greatest first
DescendingSeq(S) ==
    IF S = {} THEN <<>>
    ELSE LET m == CHOOSE x \in S : \A y \in S : y <= x
         IN  <<m>> \o DescendingSeq(S \ {m})

\* The daily file of a river with a reading at each instant of S (hours of
\* day 1), latest first, each with a level of its own.
ReadingsFile(code, S) ==
    LET ci == CHOOSE i \in 1..5 : AllRiverCodes[i] = code
        desc == DescendingSeq(S)
    IN  RiverFile(DailyName(code, C_csv),
                  [i \in DOMAIN desc |-> ObsRow(1, desc[i], 13, 10 * ci + desc[i])])

\* The daily file of a river whose readings all fail the test of line 248:
\* one on a low battery, one with a level below zero.
RejectedFile(code) ==
    RiverFile(DailyName(code, C_csv), <<ObsRow(1, 2, 11, 9), ObsRow(1, 1, 13, 0 - 1)>>)

\* What the tree holds for one river: no file, one file of readings that all
\* fail the filter, or one file with readings at any instants (none
\* included); for the excluded station, no file or one of either kind.
RiverOptions(code) ==
    IF code \in excluded_stations
    THEN {<<>>, <<RejectedFile(code)>>, <<ReadingsFile(code, {1})>>}
    ELSE {<<>>, <<RejectedFile(code)>>}
         \cup {<<ReadingsFile(code, S)>> : S \in SUBSET (1..MaxStamps)}

RECURSIVE StageTrees(_)
\* the trees of the river stage: the files of the rivers from the i-th on
StageTrees(i) ==
    IF i > Len(river_codes) THEN {<<>>}
    ELSE {o \o rest : o \in RiverOptions(river_codes[i]), rest \in StageTrees(i + 1)}

\* a value of a level column of a merged table: a number or NaN
Val(x) == [nan |-> FALSE, v |-> x]
NaN == [nan |-> TRUE, v |-> 0]

\* a DataFrame with the column datetime and level columns
Frame(cols, rows) == [cols |-> cols, rows |-> rows]

\* the sorted series of a river as a frame
RiverFrame(code, rows) ==
    Frame({RiverName(code)},
          [i \in DOMAIN rows |->
              [c \in {"datetime", RiverName(code)} |->
                  IF c = "datetime" THEN rows[i]["datetime"] ELSE Val(rows[i][c])]])

\* a row of the join: the columns of both sides, NaN where a side has no row
JoinRow(ts, cols_l, row_l, cols_r, row_r) ==
    [c \in {"datetime"} \cup cols_l \cup cols_r |->
        IF c = "datetime" THEN ts
        ELSE IF c \in cols_l THEN (IF row_l = <<>> THEN NaN ELSE row_l[1][c])
        ELSE (IF row_r = <<>> THEN NaN ELSE row_r[1][c])]

RECURSIVE LeftRows(_, _, _)
\* the rows of the join that have a row of the left side
LeftRows(left, right, i) ==
    IF i > Len(left.rows) THEN <<>>
    ELSE LET l == left.rows[i]
             matches == SelectSeq(right.rows, LAMBDA r : r["datetime"] = l["datetime"])
         IN  (IF matches = <<>>
              THEN <<JoinRow(l["datetime"], left.cols, <<l>>, right.cols, <<>>)>>
              ELSE [j \in DOMAIN matches |->
                       JoinRow(l["datetime"], left.cols, <<l>>, right.cols, <<matches[j]>>)])
             \o LeftRows(left, right, i + 1)

\* the rows of the right side that no row of the left side matches
RightOnlyRows(left, right) ==
    LET alone == SelectSeq(right.rows,
                           LAMBDA r : \A i \in DOMAIN left.rows :
                                          left.rows[i]["datetime"] # r["datetime"])
    IN  [j \in DOMAIN alone |->
            JoinRow(alone[j]["datetime"], left.cols, <<>>, right.cols, <<alone[j]>>)]

\* mutant: an inner join
pd_merge_inner(left, right) ==
    Frame(left.cols \cup right.cols,
          SelectSeq(LeftRows(left, right, 1),
                    LAMBDA row : \E j \in DOMAIN right.rows :
                                     right.rows[j]["datetime"] = row["datetime"]))

\* pd.merge(left, right, on="datetime", how="outer"); the order of its rows is
\* replaced by the sort of line 171
pd_merge(left, right) ==
    Frame(left.cols \cup right.cols, LeftRows(left, right, 1) \o RightOnlyRows(left, right))

RECURSIVE reduce_merge(_)
\* reduce(lambda left, right: pd.merge(...), all_river_dfs) on a list that is
\* not empty
reduce_merge(dfs) ==
    IF Len(dfs) = 1 THEN dfs[1]
    ELSE pd_merge(reduce_merge(SubSeq(dfs, 1, Len(dfs) - 1)), dfs[Len(dfs)])

InitRiver ==
    /\ rv_tree \in StageTrees(1)
    /\ rv_idx = 1
    /\ rv_all = <<>>
    /\ rv_out = NoTables
    /\ rv_pc = "loop"
    /\ rv_err = "none"

rv_code == river_codes[rv_idx]

\* line 152
river_df == filter_river_data(rv_tree, rv_code, battery_treshold)

\* lines 154-161: the series of the river is sorted and written, and joins
\* all_river_dfs unless the station is excluded
RiverSeries ==
    /\ rv_pc = "loop" /\ rv_idx <= Len(river_codes)
    /\ UNCHANGED notRiver
    /\ ~river_df.none
    /\ LET sorted == RiverFrame(rv_code, SortByDatetime(river_df.rows))
       IN  /\ rv_out' = [f \in DOMAIN rv_out \cup {single_file_name(rv_code)} |->
                            IF f = single_file_name(rv_code) THEN sorted ELSE rv_out[f]]
           /\ rv_all' = IF rv_code \notin excluded_stations THEN Append(rv_all, sorted)
                        ELSE rv_all
    /\ rv_idx' = rv_idx + 1
    /\ UNCHANGED <<rv_tree, rv_pc, rv_err>>

\* mutant: a river without files is passed over
AfterNone_skip(idx) == [pc |-> "loop", idx |-> idx + 1, err |-> "none"]

\* lines 162-163: raise ValueError, outside any try
AfterNone(idx) == [pc |-> "aborted", idx |-> idx, err |-> "ValueError"]

\* lines 162-163: filter_river_data returned None
RiverNone ==
    /\ rv_pc = "loop" /\ rv_idx <= Len(river_codes)
    /\ UNCHANGED notRiver
    /\ river_df.none
    /\ rv_pc' = AfterNone(rv_idx).pc
    /\ rv_idx' = AfterNone(rv_idx).idx
    /\ rv_err' = AfterNone(rv_idx).err
    /\ UNCHANGED <<rv_tree, rv_all, rv_out>>

\* lines 170-176 after the loop: the series are joined, the table is sorted
\* and written; reduce raises TypeError on an empty list
RiverMerge ==
    /\ rv_pc = "loop" /\ rv_idx > Len(river_codes)
    /\ UNCHANGED notRiver
    /\ IF rv_all = <<>>
       THEN rv_pc' = "aborted" /\ rv_err' = "TypeError" /\ UNCHANGED rv_out
       ELSE LET merged_df == reduce_merge(rv_all)
                sorted == Frame(merged_df.cols, SortByDatetime(merged_df.rows))
            IN  /\ rv_out' = [f \in DOMAIN rv_out \cup {merged_file_name} |->
                                 IF f = merged_file_name THEN sorted ELSE rv_out[f]]
                /\ rv_pc' = "done"
                /\ UNCHANGED rv_err
    /\ UNCHANGED <<rv_tree, rv_idx, rv_all>>

(***************************************************************************)
(* utils/img_to_csv_utils.py: extract_protok_data.                         *)
(***************************************************************************)
RowLimit == 24      \* rows[:24]

IsDigit(ch) == ch \in {"0", "1", "2", "3", "4", "5", "6", "7", "8", "9"}

RECURSIVE NumChars(_)
\* the characters of a non-negative number as it is printed
NumChars(n) == IF n < 10 THEN <<DigitChar(n)>> ELSE NumChars(n \div 10) \o <<DigitChar(n % 10)>>

RECURSIVE PadChars(_, _)
\* the characters of a number printed on w digits
PadChars(n, w) == IF w = 0 THEN <<>> ELSE PadChars(n \div 10, w - 1) \o <<DigitChar(n % 10)>>

C_Protok == <<"P", "r", "o", "t", "o", "k", "_">>
C_jpg == <<".", "j", "p", "g">>

\* DD.MM.YYYY
DotDate(d, m, y) == PadChars(d, 2) \o <<".">> \o PadChars(m, 2) \o <<".">> \o PadChars(y, 4)

\* File names of scanned images: the expected form, another label, a date
\* with single digits, a year of five digits, no date, no extension, a
\* longer label.
ImageNames ==
    {C_Protok \o DotDate(5, 1, 2025) \o C_jpg,
     <<"N", "i", "v", "o", "_">> \o DotDate(5, 1, 2025) \o C_jpg,
     C_Protok \o <<"5", ".", "1", ".">> \o PadChars(2025, 4) \o C_jpg,
     C_Protok \o DotDate(5, 1, 2025) \o <<"1">> \o C_jpg,
     <<"s", "c", "a", "n">> \o C_jpg,
     C_Protok \o DotDate(5, 1, 2025),
     <<"x">> \o C_Protok \o DotDate(31, 12, 2024) \o C_jpg}

\* os.path.join(flow_dir, fname)
ImageDir == <<".", "/", "P", "r", "o", "t", "o", "c", "i", "_", "m", "a", "j">>
ImagePath(fname) == ImageDir \o <<"/">> \o fname

\* os.path.basename(image_path): what follows the last '/'
basename(path) ==
    LET slashes == {i \in DOMAIN path : path[i] = "/"}
        last == IF slashes = {} THEN 0 ELSE CHOOSE i \in slashes : \A j \in slashes : j <= i
    IN  SubSeq(path, last + 1, Len(path))

\* r"Protok_(\d{2})\.(\d{2})\.(\d{4})" matches at offset i of the name
ProtokAt(name, i) ==
    /\ MatchesAt(name, i, C_Protok)
    /\ i + 16 <= Len(name)
    /\ \A k \in {7, 8, 10, 11, 13, 14, 15, 16} : IsDigit(name[i + k])
    /\ name[i + 9] = "." /\ name[i + 12] = "."

\* re.search of that pattern: the leftmost match and its three groups
date_match(name) ==
    LET at == {i \in DOMAIN name : ProtokAt(name, i)}
    IN  IF at = {} THEN [found |-> FALSE, g1 |-> <<>>, g2 |-> <<>>, g3 |-> <<>>]
        ELSE LET i == CHOOSE i \in at : \A j \in at : i <= j
             IN  [found |-> TRUE,
                  g1 |-> SubSeq(name, i + 7, i + 8),
                  g2 |-> SubSeq(name, i + 10, i + 11),
                  g3 |-> SubSeq(name, i + 13, i + 16)]

\* mutant: day first
date_str_dmy(m) == Join(m.g1) \o "-" \o Join(m.g2) \o "-" \o Join(m.g3)

\* line 69: f"{group(3)}-{group(2)}-{group(1)}"
date_str(m) == Join(m.g3) \o "-" \o Join(m.g2) \o "-" \o Join(m.g1)

\* end of the run of digits that starts at i: the first index after it
DigitsEnd(line, i) ==
    IF \A j \in i..Len(line) : IsDigit(line[j]) THEN Len(line) + 1
    ELSE CHOOSE j \in i..Len(line) :
             ~IsDigit(line[j]) /\ \A k \in i..(j - 1) : IsDigit(line[k])

RECURSIVE FindAllFrom(_, _)
\* re.findall(r'\d+\.\d{1,2}', line) from offset i on: the matches do not
\* overlap, each is the longest at the leftmost offset that has one
FindAllFrom(line, i) ==
    IF i > Len(line) THEN <<>>
    ELSE IF ~IsDigit(line[i]) THEN FindAllFrom(line, i + 1)
    ELSE LET j == DigitsEnd(line, i)
         IN  IF j + 1 <= Len(line) /\ line[j] = "." /\ IsDigit(line[j + 1])
             THEN LET e == IF j + 2 <= Len(line) /\ IsDigit(line[j + 2])
                           THEN j + 2 ELSE j + 1
                  IN  <<Join(SubSeq(line, i, e))>> \o FindAllFrom(line, e + 1)
             ELSE FindAllFrom(line, i + 1)

findall(line) == FindAllFrom(line, 1)

\* mutant: one number is enough
Qualifies_one(match) == Len(match) >= 1

\* line 74: len(match) >= 2
Qualifies(match) == Len(match) >= 2

\* s[:n]
Slice(q, n) == SubSeq(q, 1, IF Len(q) < n THEN Len(q) ELSE n)

RECURSIVE RowsOf(_, _, _)
\* lines 71-75: the loop over the lines
RowsOf(lines, k, date) ==
    IF k > Len(lines) THEN <<>>
    ELSE LET match == findall(lines[k])
         IN  (IF Qualifies(match) THEN <<<<date>> \o Slice(match, 3)>> ELSE <<>>)
             \o RowsOf(lines, k + 1, date)

OcrReturn(raised, rows) == [raised |-> raised, rows |-> rows]

\* extract_protok_data: the image is opened and read before the name is
\* looked at
extract_protok_data(image_path, image_opens, lines) ==
    IF ~image_opens THEN OcrReturn("OSError", <<>>)
    ELSE LET m == date_match(basename(image_path))
         IN  IF ~m.found THEN OcrReturn("none", <<>>)
             ELSE OcrReturn("none", Slice(RowsOf(lines, 1, date_str(m)), RowLimit))

C_sp == <<" ">>

\* Lines of a recognized page, numbered by their place on it: two, three,
\* four numbers or one, none, a date before a number, a third decimal.
OcrLine(kind, i) ==
    LET n == NumChars(i)
    IN  CASE kind = "two" -> n \o <<".", "5">> \o C_sp \o n \o <<".", "2", "5">>
          [] kind = "three" -> n \o <<".", "1">> \o C_sp \o n \o <<".", "2">> \o C_sp
                               \o n \o <<".", "3">>
          [] kind = "four" -> n \o <<".", "1">> \o C_sp \o n \o <<".", "2">> \o C_sp
                              \o n \o <<".", "3">> \o C_sp \o n \o <<".", "4">>
          [] kind = "one" -> n \o <<".", "5">>
          [] kind = "none" -> <<"T", "o", "t", "a", "l">>
          [] kind = "dated" -> DotDate(5, 1, 2025) \o C_sp \o n \o <<".", "5">>
          [] kind = "long" -> n \o <<".", "1", "2", "3">> \o C_sp \o n \o <<".", "5">>

\* Pages: the kind of line at each place
OcrPages == {"hourly", "mixed", "header"}
LineKind(page, i) ==
    CASE page = "hourly" -> "three"
      [] page = "mixed" -> (CASE i % 4 = 1 -> "two" [] i % 4 = 2 -> "none"
                              [] i % 4 = 3 -> "four" [] i % 4 = 0 -> "one")
      [] page = "header" -> (IF i = 1 THEN "dated" ELSE "long")

PageLines(page, n) == [i \in 1..n |-> OcrLine(LineKind(page, i), i)]

InitOcr ==
    /\ oc_path \in {ImagePath(fname) : fname \in ImageNames}
    /\ oc_image \in BOOLEAN
    /\ oc_lines \in {PageLines(page, n) : page \in OcrPages, n \in 0..MaxLines}
    /\ oc_ret = OcrReturn("uncalled", <<>>)
    /\ oc_pc = "call"

\* img_to_csv_data.py line 57: extract_protok_data(image_path)
OcrCall ==
    /\ oc_pc = "call"
    /\ UNCHANGED notOcr
    /\ oc_ret' = extract_protok_data(oc_path, oc_image, oc_lines)
    /\ oc_pc' = "done"
    /\ UNCHANGED <<oc_path, oc_image, oc_lines>>

(***************************************************************************)
(* CDS_API_download.py: the download loop.                                 *)
(***************************************************************************)
download_dir == "./ERA5_data/"

RECURSIVE RangeList(_, _)
\* list(range(a, b))
RangeList(a, b) == IF a >= b THEN <<>> ELSE <<a>> \o RangeList(a + 1, b)

years == SubSeq(RangeList(2020, 2025), 1, MaxYears)
months == SubSeq(RangeList(1, 13), 1, MaxMonths)

\* the iterations of the nested for loops, in order: (year, month)
Iterations ==
    [i \in 1..(Len(years) * Len(months)) |->
        <<years[((i - 1) \div Len(months)) + 1], months[((i - 1) % Len(months)) + 1]>>]

\* os.path.join(download_dir, str(year)): download_dir ends with a separator
year_dir(year) == download_dir \o IntToStr(year)
\* f'ERA5_{year}_{month:02d}'
name_file_base(year, month) == "ERA5_" \o IntToStr(year) \o "_" \o ZeroPad(month, 2)
target_zip(year, month) == name_file_base(year, month) \o ".zip"
target_nc(year, month) == name_file_base(year, month) \o ".nc"

\* What the file at a zip path can hold: an archive with its members in
\* directory order, or bytes that are no archive (a download that stopped).
Archive(members) == [archive |-> TRUE, members |-> members]
NotAnArchive == [archive |-> FALSE, members |-> <<>>]
\* the member of an archive: its name in it and the request it answers
Member(name, zip) == [name |-> name, of |-> zip]
\* what the service delivers for a request: one file, or one per stream
Deliveries(zip) ==
    {Archive(<<Member("data_0.nc", zip)>>),
     Archive(<<Member("data_0.nc", zip), Member("data_1.nc", zip)>>)}

NoZips == [p \in {} |-> NotAnArchive]
NoNcs == [p \in {} |-> Member("", "")]

RECURSIVE ExtractAll(_, _, _, _)
\* extract_nc, lines 76-79: every member of the archive is extracted under
\* the name target_name in extracted_dir, each over the one before
ExtractAll(fs, members, extracted_dir, target_name) ==
    IF members = <<>> THEN fs
    ELSE LET path == extracted_dir \o "/" \o target_name
             fs1 == [p \in DOMAIN fs \cup {path} |->
                        IF p = path THEN Head(members) ELSE fs[p]]
         IN  ExtractAll(fs1, Tail(members), extracted_dir, target_name)

cd_year == Iterations[cd_idx][1]
cd_month == Iterations[cd_idx][2]
cd_zip == target_zip(cd_year, cd_month)

InitCds ==
    /\ cd_run = 1
    /\ cd_pc = "for"
    /\ cd_idx = 1
    /\ cd_zips = NoZips
    /\ cd_ncs = NoNcs
    /\ cd_requests = <<>>
    /\ cd_extracts = <<>>
    /\ cd_err = "none"
    /\ cd_completed = FALSE

\* lines 85, 90: the loops are over
CdsLoopEnd ==
    /\ cd_pc = "for"
    /\ UNCHANGED notCds
    /\ cd_idx > Len(Iterations)
    /\ cd_pc' = "done"
    /\ UNCHANGED <<cd_run, cd_idx, cd_zips, cd_ncs, cd_requests, cd_extracts, cd_err,
                   cd_completed>>

\* mutant: the request is issued whether or not the zip exists
ZipExists_never(zips, zip) == FALSE

\* line 114: os.path.exists(target_zip)
ZipExists(zips, zip) == zip \in DOMAIN zips

\* lines 90-120: the next iteration; the test of line 114 and, without the
\* zip, the call of client.retrieve
CdsCheckZip ==
    /\ cd_pc = "for"
    /\ UNCHANGED notCds
    /\ cd_idx <= Len(Iterations)
    /\ IF ~ZipExists(cd_zips, cd_zip)
       THEN /\ cd_requests' = Append(cd_requests, cd_zip)
            /\ cd_pc' = "retrieve"
       ELSE /\ cd_pc' = "extract"
            /\ UNCHANGED cd_requests
    /\ UNCHANGED <<cd_run, cd_idx, cd_zips, cd_ncs, cd_extracts, cd_err, cd_completed>>

\* line 118: client.retrieve returns, the zip is in the working directory
CdsRetrieveReturns ==
    /\ cd_pc = "retrieve"
    /\ UNCHANGED notCds
    /\ \E content \in Deliveries(cd_zip) :
          cd_zips' = [p \in DOMAIN cd_zips \cup {cd_zip} |->
                         IF p = cd_zip THEN content ELSE cd_zips[p]]
    /\ cd_pc' = "extract"
    /\ UNCHANGED <<cd_run, cd_idx, cd_ncs, cd_requests, cd_extracts, cd_err,
                   cd_completed>>

\* lines 117-118: cdsapi.Client() or client.retrieve raises, outside any try;
\* the download may have begun and left a file that is no archive
CdsRetrieveRaises ==
    /\ cd_pc = "retrieve"
    /\ UNCHANGED notCds
    /\ \/ UNCHANGED cd_zips
       \/ cd_zips' = [p \in DOMAIN cd_zips \cup {cd_zip} |->
                         IF p = cd_zip THEN NotAnArchive ELSE cd_zips[p]]
    /\ cd_pc' = "aborted"
    /\ cd_err' = "Exception"
    /\ UNCHANGED <<cd_run, cd_idx, cd_ncs, cd_requests, cd_extracts, cd_completed>>

\* line 123: extract_nc(target_zip, year_dir, target_nc) on an archive
CdsExtract ==
    /\ cd_pc = "extract"
    /\ UNCHANGED notCds
    /\ cd_zips[cd_zip].archive
    /\ cd_ncs' = ExtractAll(cd_ncs, cd_zips[cd_zip].members, year_dir(cd_year),
                            target_nc(cd_year, cd_month))
    /\ cd_extracts' = Append(cd_extracts, cd_zip)
    /\ cd_idx' = cd_idx + 1
    /\ cd_pc' = "for"
    /\ UNCHANGED <<cd_run, cd_zips, cd_requests, cd_err, cd_completed>>

\* line 75: ZipFile(zip_path) raises BadZipFile on a file that is no archive
CdsExtractRaises ==
    /\ cd_pc = "extract"
    /\ UNCHANGED notCds
    /\ ~cd_zips[cd_zip].archive
    /\ cd_pc' = "aborted"
    /\ cd_err' = "BadZipFile"
    /\ UNCHANGED <<cd_run, cd_idx, cd_zips, cd_ncs, cd_requests, cd_extracts, cd_completed>>

\* the script is started again: the files on disk stay
CdsRerun ==
    /\ cd_pc \in {"done", "aborted"}
    /\ UNCHANGED notCds
    /\ cd_run < MaxRuns
    /\ cd_run' = cd_run + 1
    /\ cd_pc' = "for"
    /\ cd_idx' = 1
    /\ cd_requests' = <<>>
    /\ cd_extracts' = <<>>
    /\ cd_err' = "none"
    /\ cd_completed' = (cd_completed \/ cd_pc = "done")
    /\ UNCHANGED <<cd_zips, cd_ncs>>

(***************************************************************************)
(* Specifications. Each one runs its program over its own variables and    *)
(* leaves the others at rest.                                              *)
(***************************************************************************)
RestIngest ==
    /\ run = 1
    /\ ScriptStart
    /\ id_file = [written |-> FALSE, obj |-> PyNone]
    /\ dirs = {output_dir}
    /\ files = NoFiles
    /\ torn = {}

RestSave ==
    /\ sv_format = "csv" /\ sv_files = NoFiles /\ sv_calls = <<>>
    /\ sv_bad = 0 /\ sv_err = "none"

RestResolver == rs_list = <<>> /\ rs_out = PyNone /\ rs_pc = "call"

RestFlat ==
    /\ fl_ds = Dataset(FALSE, FALSE, 0, 1, 1, 1)
    /\ fl_dim = DefaultDimension
    /\ fl_res = FlatResult("uncalled", <<>>, FALSE)
    /\ fl_map = [called |-> FALSE, m |-> NoMapping]

RestFlatten ==
    /\ fb_tree = <<>>
    /\ fb_var = 1
    /\ fb_file = 1
    /\ fb_records = <<>>
    /\ fb_out = NoTables
    /\ fb_pc = "walk"
    /\ fb_err = "none"

RestTensor ==
    /\ tn_tree = <<>>
    /\ tn_file = 1
    /\ tn_tensors = <<>>
    /\ tn_timestamps = <<>>
    /\ tn_pc = "walk"
    /\ tn_ret = TensorReturn("running", <<>>, <<>>)

RestFilter ==
    /\ rf_tree = <<>>
    /\ rf_code = <<"2", "3", "9">>
    /\ rf_ret = SeriesNone
    /\ rf_sorted = <<>>
    /\ rf_pc = "call"

RestRiver ==
    /\ rv_tree = <<>>
    /\ rv_idx = 1
    /\ rv_all = <<>>
    /\ rv_out = NoTables
    /\ rv_pc = "loop"
    /\ rv_err = "none"

RestOcr ==
    /\ oc_path = <<>>
    /\ oc_image = FALSE
    /\ oc_lines = <<>>
    /\ oc_ret = OcrReturn("uncalled", <<>>)
    /\ oc_pc = "call"

RestCds ==
    /\ cd_run = 1 /\ cd_pc = "for" /\ cd_idx = 1
    /\ cd_zips = NoZips /\ cd_ncs = NoNcs
    /\ cd_requests = <<>> /\ cd_extracts = <<>> /\ cd_err = "none"
    /\ cd_completed = FALSE

RestPreproc == RestFlatten /\ RestTensor /\ RestFilter /\ RestRiver /\ RestOcr /\ RestCds

Init == InitIngest /\ RestSave /\ RestResolver /\ RestFlat /\ RestPreproc
Next == NextIngest
Spec == Init /\ [][Next]_vars

InitSaveSpec == RestIngest /\ InitSave /\ RestResolver /\ RestFlat /\ RestPreproc
NextSave == SaveCall \/ SaveCallOtherFormat
SpecSave == InitSaveSpec /\ [][NextSave]_vars

InitResolverSpec == RestIngest /\ RestSave /\ InitResolver /\ RestFlat /\ RestPreproc
NextResolver == ResolverCall
SpecResolver == InitResolverSpec /\ [][NextResolver]_vars

InitFlatSpec == RestIngest /\ RestSave /\ RestResolver /\ InitFlat /\ RestPreproc
NextFlat == FlatCall \/ CoordsCall
SpecFlat == InitFlatSpec /\ [][NextFlat]_vars

RestFirst == RestIngest /\ RestSave /\ RestResolver /\ RestFlat /\ RestCds

InitFlattenSpec == RestFirst /\ InitFlatten /\ RestTensor /\ RestFilter /\ RestRiver /\ RestOcr
NextFlatten == FlattenSkipFile \/ FlattenFile \/ FlattenFileRaises \/ FlattenSave
SpecFlatten == InitFlattenSpec /\ [][NextFlatten]_vars

InitTensorSpec == RestFirst /\ RestFlatten /\ InitTensor /\ RestFilter /\ RestRiver /\ RestOcr
NextTensor ==
    \/ TensorSkipFile \/ TensorOpenRaises \/ TensorLacksVariable \/ TensorFile
    \/ TensorStack
SpecTensor == InitTensorSpec /\ [][NextTensor]_vars

InitFilterSpec == RestFirst /\ RestFlatten /\ RestTensor /\ InitFilter /\ RestRiver /\ RestOcr
NextFilter == FilterCall \/ FilterSort
SpecFilter == InitFilterSpec /\ [][NextFilter]_vars

InitRiverSpec == RestFirst /\ RestFlatten /\ RestTensor /\ RestFilter /\ InitRiver /\ RestOcr
NextRiver == RiverSeries \/ RiverNone \/ RiverMerge
SpecRiver == InitRiverSpec /\ [][NextRiver]_vars

InitOcrSpec == RestFirst /\ RestFlatten /\ RestTensor /\ RestFilter /\ RestRiver /\ InitOcr
NextOcr == OcrCall
SpecOcr == InitOcrSpec /\ [][NextOcr]_vars

InitCdsSpec ==
    /\ RestIngest /\ RestSave /\ RestResolver /\ RestFlat
    /\ RestFlatten /\ RestTensor /\ RestFilter /\ RestRiver /\ RestOcr /\ InitCds
NextCds ==
    \/ CdsLoopEnd \/ CdsCheckZip \/ CdsRetrieveReturns \/ CdsRetrieveRaises
    \/ CdsExtract \/ CdsExtractRaises \/ CdsRerun
SpecCds == InitCdsSpec /\ [][NextCds]_vars

(***************************************************************************)
(* Claims about the download script (Spec).                                *)
(***************************************************************************)
\* The fetches a complete run makes: station by station, day by day.
ExpectedAttempts ==
    [i \in 1..(Len(station_ids) * MaxDays) |->
        <<station_ids[((i - 1) \div MaxDays) + 1], PlusDays(start_date, (i - 1) % MaxDays)>>]

IsPrefix(p, q) == Len(p) <= Len(q) /\ \A i \in DOMAIN p : p[i] = q[i]

CompleteTable(rec) == [complete |-> TRUE, rows |-> DataFrame(rec)]

\* C1: in the daily download loop every day of the range is fetched exactly
\* once for every station, in ascending date order, whatever errors the
\* fetches or writes of earlier days raised: the fetches made so far are
\* always a prefix of the station-by-station, day-by-day list; the fetch in
\* progress is the one of the current day; an error has been reported for
\* the current day when the loop advances; the script never stops on a fetch
\* or write error; the script ends only with every fetch made, the last
\* being the one of end_date; and until it has ended it always has a next
\* step (each step moves forward in the list, so the loop terminates).
C1_EveryDayFetchedOnce ==
    /\ IsPrefix(attempts, ExpectedAttempts)
    /\ pc \in {"fetching", "check", "saving", "advance"} =>
          /\ attempts # <<>>
          /\ attempts[Len(attempts)] = <<station, cur_date>>
          /\ msg.station = station /\ msg.date = cur_date
    /\ pc = "advance" => msg.kind \in {"error", "nodata", "fetched"}
    /\ pc = "aborted" => map_dict.kind = "None"
    /\ pc = "done" =>
          /\ attempts = ExpectedAttempts
          /\ attempts[Len(attempts)][2] = end_date
    /\ pc \notin {"done", "aborted", "killed"} => ENABLED Next

\* C1's case: a complete first run in which a write failed part-way on an
\* earlier day and the last day's fetch raised.
C1_Witness ==
    /\ run = 1 /\ pc = "done"
    /\ msg = Report("error", 239, end_date)
    /\ \E p \in DOMAIN files : ~files[p].complete
    /\ Len(attempts) = MaxDays

\* C2: a body with no `rec` field or an empty `rec` list is reported as "no
\* data" for that day, not as an error, and the step creates no file and no
\* directory and does not enter the writer; the daily files change only
\* inside the writer, which is entered only with the body of the current
\* day's successful fetch and a non-empty `rec`.
C2_NoDataIsNotAnError ==
    [][/\ (pc = "check" /\ (~json_data.has_rec \/ json_data.rec = <<>>)) =>
              /\ msg' = Report("nodata", station, cur_date)
              /\ pc' = "advance"
              /\ files' = files
              /\ dirs' = dirs
       /\ (files' # files \/ pc' = "saving") =>
              /\ pc \in {"check", "saving"}
              /\ json_data.has_rec /\ json_data.rec # <<>>
              /\ attempts[Len(attempts)] = <<station, cur_date>>
       /\ dirs' # dirs => pc = "check" /\ json_data.has_rec /\ json_data.rec # <<>>
      ]_vars

\* C2's case: the day of an empty `rec` list has been reported as no data.
C2_Witness ==
    /\ pc = "advance"
    /\ json_data = Body(TRUE, <<>>)
    /\ msg = Report("nodata", 239, cur_date)
    /\ files = NoFiles

\* the file of (station, day) under the directory of a basin name
DailyPath(basin, id, date) ==
    PathJoin(PathJoin(PathJoin(output_dir, basin \o " - " \o IntToStr(id)), IntToStr(date.y)),
             FileName(id, date, "csv"))

BasinNames == {"Unknown", "Velika Morava"}

C6_TransportFailureNotFatal ==
    meta = "transport" =>
        /\ map_dict = PyDict(EntriesToDict(<<>>))
        /\ pc # "aborted"
        /\ pc \in {"while", "fetching", "check", "saving", "advance"} => st_basin = "Unknown"
        /\ run = 1 => \A p \in DOMAIN files :
                          \E k \in 0..(MaxDays - 1) :
                              p = DailyPath("Unknown", 239, PlusDays(start_date, k))
        /\ pc = "done" => attempts = ExpectedAttempts

\* C6's case: a run whose metadata request failed has fetched the whole range
\* and written a file under `Unknown - 239`.
C6_Witness ==
    /\ meta = "transport" /\ pc = "done" /\ run = 1
    /\ attempts = ExpectedAttempts
    /\ DailyPath("Unknown", 239, end_date) \in DOMAIN files

\* C7: after a malformed JSON body of the metadata response the resolver has
\* returned no mapping, and the run makes no daily fetch and writes no daily
\* file.
C7_MalformedJsonIsFatal ==
    (meta = "malformed" /\ pc # "resolve") =>
        /\ map_dict = PyNone
        /\ attempts = <<>>
        /\ pc \in {"dump", "station", "aborted"}

\* A fetch is in progress from the request to its return or exception, a
\* write from the entry of save_daily_data to its return, exception or kill.
InFetch == pc = "fetching"
InWrite == pc = "saving"
FetchBegins == attempts' # attempts /\ attempts' # <<>>
DailyFilesChange == files' # files
MappingFileChanges == id_file' # id_file

\* C22: remote ingestion is sequential and ordered. A fetch begins only when
\* no fetch and no write is in progress, after the mapping of this run is
\* resolved and written to the mapping file, and it is the fetch of the day
\* the loop stands on; the daily files change only during the write of the
\* day fetched last, and at most the file of that day changes; a write is
\* entered only from the test of a returned body, so never during a fetch;
\* the mapping file changes only before the first fetch of the run.
C22_SequentialIngestion ==
    [][/\ FetchBegins =>
             /\ ~InFetch /\ ~InWrite
             /\ meta # "none" /\ id_file.written /\ id_file.obj = map_dict
             /\ attempts' = Append(attempts, <<station, cur_date>>)
             /\ InFetch'
       /\ DailyFilesChange =>
             /\ InWrite /\ ~InWrite'
             /\ attempts # <<>> /\ attempts[Len(attempts)] = <<station, cur_date>>
             /\ \A f \in DOMAIN files : files'[f] # files[f] => f = DailySave.path
             /\ DOMAIN files' \ DOMAIN files \subseteq {DailySave.path}
       /\ (InWrite' /\ ~InWrite) => (pc = "check" /\ attempts' = attempts)
       /\ MappingFileChanges => (attempts = <<>> /\ ~InFetch /\ ~InWrite)
      ]_vars

\* C22's case: the fetch of the second day is in progress, in the first
\* run, after the file of the first day was written whole.
C22_Witness ==
    /\ run = 1 /\ InFetch /\ Len(attempts) = 2
    /\ attempts[1][2] = start_date /\ attempts[2][2] = PlusDay(start_date)
    /\ id_file.written
    /\ DOMAIN files # {} /\ \A f \in DOMAIN files : files[f].complete

(***************************************************************************)
(* Claims about save_daily_data (SpecSave).                                *)
(***************************************************************************)
\* the file names of the stations and dates of SpecSave, written out
SvExpectedStem(id, date) ==
    CASE id = 23 /\ date = Date(2019, 6, 10) -> "station_23_20190610"
      [] id = 23 /\ date = Date(2020, 1, 5) -> "station_23_20200105"
      [] id = 239 /\ date = Date(2019, 6, 10) -> "station_239_20190610"
      [] id = 239 /\ date = Date(2020, 1, 5) -> "station_239_20200105"

SvExpectedPath(id, date) == SvDir \o "/" \o SvExpectedStem(id, date) \o "." \o sv_format

\* the last call made for a (station id, date) pair
SvLastCall(id, date) ==
    LET of == {i \in DOMAIN sv_calls : sv_calls[i].id = id /\ sv_calls[i].date = date}
    IN  sv_calls[CHOOSE i \in of : \A j \in of : j <= i]

\* C3: after any sequence of successful save_daily_data calls into one
\* directory with one format, the directory holds exactly one file per
\* (station id, date) pair written, named station_<id>_<YYYYMMDD>.<ext>, and
\* the file holds the table of the most recent call for that pair.
C3_OneFilePerStationDay ==
    LET pairs == {<<sv_calls[i].id, sv_calls[i].date>> : i \in DOMAIN sv_calls}
    IN  /\ DOMAIN sv_files = {SvExpectedPath(pr[1], pr[2]) : pr \in pairs}
        /\ Cardinality(DOMAIN sv_files) = Cardinality(pairs)
        /\ \A pr \in pairs :
              sv_files[SvExpectedPath(pr[1], pr[2])] =
                  CompleteTable(SvLastCall(pr[1], pr[2]).data.rec)

\* C3's case: a pair written twice with different tables, another pair
\* written in between.
C3_Witness ==
    /\ Len(sv_calls) = 3
    /\ sv_calls[1].id = sv_calls[3].id /\ sv_calls[1].date = sv_calls[3].date
    /\ sv_calls[1].data # sv_calls[3].data
    /\ sv_calls[2].id = sv_calls[1].id /\ sv_calls[2].date # sv_calls[1].date
    /\ Cardinality(DOMAIN sv_files) = 2

\* the table in the file of a (station id, date) pair, and the `rec` rows of
\* the last call made for the pair
SvTable(pr) == sv_files[SvExpectedPath(pr[1], pr[2])].rows
SvRec(pr) == SvLastCall(pr[1], pr[2]).data.rec

\* C20: for every day body with `rec` rows, the table written by
\* save_daily_data has one row per row of `rec`, with a column `elev` that
\* holds the value of the field `kota`, no column `kota`, and every other
\* field of the row unchanged; it has no other column.
C20_KotaBecomesElev ==
    \A pr \in {<<sv_calls[i].id, sv_calls[i].date>> : i \in DOMAIN sv_calls} :
        /\ Len(SvTable(pr)) = Len(SvRec(pr))
        /\ \A i \in DOMAIN SvRec(pr) :
              LET row == SvTable(pr)[i]
                  rec == SvRec(pr)[i]
              IN  /\ "elev" \in DOMAIN row /\ row["elev"] = rec["kota"]
                  /\ "kota" \notin DOMAIN row
                  /\ \A c \in DOMAIN rec \ {"kota"} : c \in DOMAIN row /\ row[c] = rec[c]
                  /\ DOMAIN row \ {"elev"} = DOMAIN rec \ {"kota"}

\* C20's case: a body of two rows with different levels has been written,
\* and its table holds them in the order of `rec` with `elev` for `kota`.
C20_Witness ==
    \E i \in DOMAIN sv_calls :
        LET pr == <<sv_calls[i].id, sv_calls[i].date>>
        IN  /\ Len(SvRec(pr)) = 2
            /\ SvTable(pr) = <<[level |-> 11, battery |-> 13, elev |-> 100],
                               [level |-> 10, battery |-> 12, elev |-> 100]>>

\* C21: a call of save_daily_data with a format other than `csv` and
\* `parquet` raises ValueError and leaves the destination directory as it
\* was: no file is added, none is replaced.
C21_OtherFormatWritesNothing ==
    [][sv_bad' # sv_bad => (sv_err' = "ValueError" /\ sv_files' = sv_files)]_vars

\* C21's case: the call with another format has raised on a directory that
\* holds files of earlier calls, complete as they were written.
C21_Witness ==
    /\ sv_bad > 0 /\ sv_err = "ValueError"
    /\ Len(sv_calls) = 2 /\ Cardinality(DOMAIN sv_files) = 2
    /\ \A f \in DOMAIN sv_files : sv_files[f].complete /\ sv_files[f].rows # <<>>

(***************************************************************************)
(* Claims about get_station_id_basin_map (SpecResolver).                   *)
(***************************************************************************)
\* C5: the keys of the returned mapping are the stringified ids of the entry
\* list, so that the lookup by str(station id) finds every station of the
\* list, and each value carries the non-empty name and basin of an entry of
\* that station.
C5_KeysAreStringIds ==
    rs_pc = "done" =>
        /\ DOMAIN rs_out.d = {Str(rs_list[i].id) : i \in DOMAIN rs_list}
        /\ \A i \in DOMAIN rs_list :
              /\ Str(rs_list[i].id) \in DOMAIN rs_out.d
              /\ \E j \in DOMAIN rs_list :
                    /\ Str(rs_list[j].id) = Str(rs_list[i].id)
                    /\ rs_out.d[Str(rs_list[i].id)] =
                           [name |-> rs_list[j].name, basin |-> rs_list[j].basin]
                    /\ rs_list[j].name # "" /\ rs_list[j].basin # ""

(***************************************************************************)
(* Claims about flat_ERA5_data and get_flat_index_to_coords (SpecFlat).    *)
(***************************************************************************)
fl_T == Len(fl_ds.valid_time)
fl_H == Len(fl_ds.latitude)
fl_W == Len(fl_ds.longitude)
FlatCalled == fl_res.raised # "uncalled"

\* C8: on a file that holds the variable, with T >= 0 timesteps of H x W
\* cells, flat_ERA5_data returns exactly T records in timestep order, each
\* with the field `datetime` and exactly the H*W fields <variable>_0 ..
\* <variable>_{H*W-1}.
C8_OneRecordPerTimestep ==
    (FlatCalled /\ fl_ds.opens /\ fl_ds.has_var) =>
        /\ fl_res.raised = "none"
        /\ Len(fl_res.records) = fl_T
        /\ \A k \in 1..Len(fl_res.records) :
              /\ DOMAIN fl_res.records[k] =
                     {"datetime"} \cup {FieldName(variable_name, j) : j \in 0..(fl_H * fl_W - 1)}
              /\ Cardinality(DOMAIN fl_res.records[k]) = fl_H * fl_W + 1
              /\ fl_res.records[k]["datetime"] = fl_ds.valid_time[k]

\* C9: producer and decoder share the raster order: in every record the
\* field of flat index i holds the grid value at row i div W, column i mod W,
\* and get_flat_index_to_coords maps i to (latitude[i div W], longitude[i mod
\* W]), for every i in 0..H*W-1 (and to nothing else).
C9_SameRasterOrder ==
    /\ fl_res.raised = "none" =>
          \A k \in 1..Len(fl_res.records) : \A i \in 0..(fl_H * fl_W - 1) :
              fl_res.records[k][FieldName(variable_name, i)] =
                  fl_ds.var_data[k][(i \div fl_W) + 1][(i % fl_W) + 1]
    /\ fl_map.called =>
          /\ DOMAIN fl_map.m = 0..(fl_H * fl_W - 1)
          /\ \A i \in 0..(fl_H * fl_W - 1) :
                fl_map.m[i] = <<fl_ds.latitude[(i \div fl_W) + 1], fl_ds.longitude[(i % fl_W) + 1]>>

\* C9's case: both calls have been made on a file with several timesteps and
\* a grid of several rows and columns whose cells all differ.
C9_Witness ==
    /\ fl_res.raised = "none" /\ fl_map.called
    /\ fl_T >= 2 /\ fl_H >= 2 /\ fl_W >= 3
    /\ fl_ds.var_data[1][1][2] # fl_ds.var_data[1][2][1]
    /\ fl_res.records[2][FieldName(variable_name, 4)] = fl_ds.var_data[2][2][2]

\* C10: the dimension check is soft: on every file that holds the variable,
\* whatever its flattened length and number of timesteps, the call raises
\* nothing and returns one record per timestep; it prints the ALERT exactly
\* when the flattened length differs from the expected dimension.
C10_DimensionCheckIsSoft ==
    (FlatCalled /\ fl_ds.opens /\ fl_ds.has_var) =>
        /\ fl_res.raised = "none"
        /\ Len(fl_res.records) = fl_T
        /\ fl_res.alert <=> (fl_H * fl_W # fl_dim)

(***************************************************************************)
(* Claims about the flatten stage of preprocessing.py (SpecFlatten).       *)
(***************************************************************************)
\* the NetCDF files of the tree that hold / lack a variable
HoldersOf(var) == {i \in DOMAIN fb_tree : fb_tree[i].ext = "nc" /\ var \in fb_tree[i].holds}
LackersOf(var) == {i \in DOMAIN fb_tree : fb_tree[i].ext = "nc" /\ var \notin fb_tree[i].holds}

\* C11: in the flatten stage the lookup error of a file that lacks the
\* requested variable is fatal to that file only: it never ends the batch,
\* and when the stage has ended every variable that some file with timesteps
\* holds has its flattened table written, with the records of all the files
\* that hold it, whatever files lack it.
C11_MissingVariableNotFatalToBatch ==
    /\ fb_err # "ValueError"
    /\ (fb_pc \in {"done", "aborted"} /\ fb_err \notin {"UnboundLocalError", "KeyError"}) =>
          \A i \in DOMAIN era5_variables :
              LET var == era5_variables[i]
                  T == [k \in HoldersOf(var) |-> Len(fb_tree[k].valid_time)]
              IN  (\E k \in HoldersOf(var) : T[k] > 0) =>
                      /\ var \in DOMAIN fb_out
                      /\ \A k \in HoldersOf(var) : \A t \in 1..T[k] :
                            \E n \in DOMAIN fb_out[var] :
                                fb_out[var][n]["datetime"] = fb_tree[k].valid_time[t]

(***************************************************************************)
(* Claims about tensor_ERA5_pytorch (SpecTensor).                          *)
(***************************************************************************)
\* the files of the tree that are read and hold the variable
TnHolds(k) ==
    /\ tn_tree[k].ext = "nc" /\ tn_tree[k].opens
    /\ tn_variable \in tn_tree[k].holds

\* number of timesteps of file k (none when it does not hold the variable)
TnSteps(k) == IF TnHolds(k) THEN Len(tn_tree[k].valid_time) ELSE 0

RECURSIVE TnStepsBefore(_)
\* number of timesteps of the files discovered before file k
TnStepsBefore(k) == IF k <= 1 THEN 0 ELSE TnStepsBefore(k - 1) + TnSteps(k - 1)

\* C12: every call of tensor_ERA5_pytorch, over any directory tree of
\* readable files of one grid shape (trees with no file that holds the
\* variable included), returns an array and a timestamp list of equal
\* lengths.
C12_ArrayAndTimestampsSameLength ==
    LET readable == \A k \in DOMAIN tn_tree : tn_tree[k].ext = "nc" => tn_tree[k].opens
        one_shape == \A j, k \in DOMAIN tn_tree :
                         Len(tn_tree[j].latitude) = Len(tn_tree[k].latitude)
    IN  (tn_pc # "walk" /\ readable /\ one_shape) =>
            /\ tn_pc = "returned"
            /\ Len(tn_ret.tensor) = Len(tn_ret.timestamps)

\* C13: the output of tensor_ERA5_pytorch is the concatenation, in discovery
\* order of the files that hold the variable, of each file's timesteps in
\* file order: timestep t of such a file k is at position (timesteps of the
\* holding files before k) + t in both lists, during the walk and in the
\* value returned, where slice and timestamp of one position are the grid
\* and the time of the same timestep; a file that lacks the variable adds
\* nothing and the walk goes on after it.
C13_DiscoveryOrderConcatenation ==
    LET seen == IF tn_pc = "walk" THEN tn_file - 1 ELSE Len(tn_tree)
        at(k, t) == TnStepsBefore(k) + t
    IN  /\ tn_pc = "walk" =>
              /\ Len(tn_tensors) = TnStepsBefore(seen + 1)
              /\ Len(tn_timestamps) = TnStepsBefore(seen + 1)
              /\ \A k \in 1..seen : \A t \in 1..TnSteps(k) :
                    /\ tn_tensors[at(k, t)] = <<tn_tree[k].data[tn_variable][t]>>
                    /\ tn_timestamps[at(k, t)] = tn_tree[k].valid_time[t]
        /\ tn_pc = "returned" =>
              /\ Len(tn_ret.tensor) = TnStepsBefore(Len(tn_tree) + 1)
              /\ Len(tn_ret.timestamps) = TnStepsBefore(Len(tn_tree) + 1)
              /\ \A k \in DOMAIN tn_tree : \A t \in 1..TnSteps(k) :
                    /\ tn_ret.tensor[at(k, t)] = <<tn_tree[k].data[tn_variable][t]>>
                    /\ tn_ret.timestamps[at(k, t)] = tn_tree[k].valid_time[t]
        /\ (tn_pc = "walk" /\ tn_file <= Len(tn_tree) /\ tn_tree[tn_file].opens)
              => ENABLED (TensorSkipFile \/ TensorLacksVariable \/ TensorFile)

\* C13's case: a call has returned over a tree whose first file lacks the
\* variable and whose second holds several timesteps of it.
C13_Witness ==
    /\ tn_pc = "returned"
    /\ Len(tn_tree) = 2
    /\ tn_tree[1].ext = "nc" /\ tn_tree[1].opens /\ tn_variable \notin tn_tree[1].holds
    /\ Len(tn_tree[1].valid_time) >= 1
    /\ TnHolds(2) /\ TnSteps(2) >= 2
    /\ Len(tn_ret.tensor) = TnSteps(2)

(***************************************************************************)
(* Claims about filter_river_data (SpecFilter).                            *)
(***************************************************************************)
\* the rows of the daily csv files of the station asked for, as <<file, row>>
RfStationRows ==
    {<<k, i>> \in (DOMAIN rf_tree) \X (1..MaxRows) :
        /\ rf_tree[k].name = DailyName(rf_code, C_csv)
        /\ i <= Len(rf_tree[k].rows)}

RfRow(pos) == rf_tree[pos[1]].rows[pos[2]]
RfStamp(pos) == 24 * RfRow(pos).sdate + RfRow(pos).stime

\* the rows among them with battery >= threshold and level >= 0
RfPassing == {pos \in RfStationRows : RfRow(pos).battery >= 12 /\ RfRow(pos).level >= 0}

RfLevel(out_row) == out_row[RiverName(rf_code)]

\* C14: every row of the series returned by filter_river_data (and of the
\* series the script sorts from it) is the timestamp and level of a row of a
\* file of that station with battery >= threshold and level >= 0; the rows
\* with battery < threshold or level < 0 add nothing: the series has no more
\* rows than the passing ones, and a timestamp met only in rejected rows is
\* not in it.
C14_OnlyRowsThatPassTheFilter ==
    LET from_passing(out_row) ==
            \E pos \in RfPassing :
                /\ out_row["datetime"] = RfStamp(pos)
                /\ RfLevel(out_row) = RfRow(pos).level
    IN  /\ (rf_pc # "call" /\ ~rf_ret.none) =>
              /\ \A n \in DOMAIN rf_ret.rows : from_passing(rf_ret.rows[n])
              /\ Len(rf_ret.rows) <= Cardinality(RfPassing)
              /\ \A pos \in RfStationRows \ RfPassing :
                    (\A q \in RfPassing : RfStamp(q) # RfStamp(pos)) =>
                        \A n \in DOMAIN rf_ret.rows : rf_ret.rows[n]["datetime"] # RfStamp(pos)
        /\ rf_pc = "sorted" => \A n \in DOMAIN rf_sorted : from_passing(rf_sorted[n])

\* C14's case: a file of the station holds a row of low battery, a row of
\* negative level and a row that passes; only the last is in the series.
C14_Witness ==
    /\ rf_pc = "returned" /\ ~rf_ret.none
    /\ \E pos \in RfStationRows : RfRow(pos).battery < 12 /\ RfRow(pos).level >= 0
    /\ \E pos \in RfStationRows : RfRow(pos).battery >= 12 /\ RfRow(pos).level < 0
    /\ Cardinality(RfPassing) = 1
    /\ Len(rf_ret.rows) = 1

\* position p is before position q in concatenation order
RfBefore(p, q) == p[1] < q[1] \/ (p[1] = q[1] /\ p[2] < q[2])

\* the first passing row of a timestamp in concatenation order
RfFirst(ts) ==
    CHOOSE p \in RfPassing :
        /\ RfStamp(p) = ts
        /\ \A q \in RfPassing : RfStamp(q) = ts => (q = p \/ RfBefore(p, q))

\* C15: the series returned by filter_river_data has exactly one row per
\* distinct timestamp of the rows that passed the filter; the row of a
\* timestamp is its first passing row in concatenation (walk) order of the
\* matched files, and the rows are in the order of those first rows; the
\* sort of the script comes after: it reorders the rows already chosen.
C15_FirstOccurrenceWins ==
    LET out == rf_ret.rows
        stamps == {RfStamp(p) : p \in RfPassing}
    IN  /\ (rf_pc # "call" /\ ~rf_ret.none) =>
              /\ Len(out) = Cardinality(stamps)
              /\ \A ts \in stamps :
                    Cardinality({n \in DOMAIN out : out[n]["datetime"] = ts}) = 1
              /\ \A n \in DOMAIN out :
                    /\ out[n]["datetime"] \in stamps
                    /\ RfLevel(out[n]) = RfRow(RfFirst(out[n]["datetime"])).level
              /\ \A n, m \in DOMAIN out :
                    n < m => RfBefore(RfFirst(out[n]["datetime"]), RfFirst(out[m]["datetime"]))
        /\ rf_pc = "sorted" =>
              /\ Len(rf_sorted) = Len(out)
              /\ {rf_sorted[n] : n \in DOMAIN rf_sorted} = {out[n] : n \in DOMAIN out}
              /\ \A n, m \in DOMAIN rf_sorted :
                    n < m => rf_sorted[n]["datetime"] < rf_sorted[m]["datetime"]

\* C15's case: two passing rows of one timestamp with different levels, the
\* first kept; the series returned has a later timestamp before an earlier
\* one, and the script has sorted it afterwards.
C15_Witness ==
    /\ rf_pc = "sorted"
    /\ Len(rf_ret.rows) = 2
    /\ rf_ret.rows[1]["datetime"] > rf_ret.rows[2]["datetime"]
    /\ \E p, q \in RfPassing :
          /\ RfBefore(p, q) /\ RfStamp(p) = RfStamp(q)
          /\ RfRow(p).level # RfRow(q).level
          /\ RfLevel(rf_ret.rows[1]) = RfRow(p).level
    /\ rf_sorted[1] = rf_ret.rows[2]

(***************************************************************************)
(* Claims about the river loop and the merge (SpecRiver).                  *)
(***************************************************************************)
\* the level column of a per-river series, and its timestamps
RvColumn(df) == CHOOSE c \in df.cols : TRUE
RvStamps(df) == {df.rows[i]["datetime"] : i \in DOMAIN df.rows}

\* the row of a timestamp in a table that has one
RvRowAt(df, ts) == df.rows[CHOOSE i \in DOMAIN df.rows : df.rows[i]["datetime"] = ts]

\* C16: the merged table written from a collection of per-river series has
\* exactly one row per timestamp of the union of the series' timestamp sets,
\* in ascending order of timestamp, with the columns of all the series; the
\* column of a river holds a missing value exactly in the rows whose
\* timestamp the river did not have, and the river's level elsewhere.
C16_MergeIsOuterJoin ==
    rv_pc = "done" =>
        LET merged == rv_out[merged_file_name]
            union == UNION {RvStamps(rv_all[k]) : k \in DOMAIN rv_all}
        IN  /\ {merged.rows[n]["datetime"] : n \in DOMAIN merged.rows} = union
            /\ Len(merged.rows) = Cardinality(union)
            /\ \A n, m \in DOMAIN merged.rows :
                  n < m => merged.rows[n]["datetime"] < merged.rows[m]["datetime"]
            /\ \A n \in DOMAIN merged.rows :
                  /\ DOMAIN merged.rows[n] =
                         {"datetime"} \cup {RvColumn(rv_all[k]) : k \in DOMAIN rv_all}
                  /\ \A k \in DOMAIN rv_all :
                        LET ts == merged.rows[n]["datetime"]
                            cell == merged.rows[n][RvColumn(rv_all[k])]
                        IN  /\ cell.nan <=> ts \notin RvStamps(rv_all[k])
                            /\ ts \in RvStamps(rv_all[k]) =>
                                  cell = RvRowAt(rv_all[k], ts)[RvColumn(rv_all[k])]

\* C16's case: two series with timestamps {t1, t2} and {t2, t3} have been
\* merged into the rows t1, t2, t3, the second river missing at t1 and the
\* first at t3.
C16_Witness ==
    /\ rv_pc = "done"
    /\ Len(rv_all) = 2
    /\ RvStamps(rv_all[1]) = {25, 26}
    /\ RvStamps(rv_all[2]) = {26, 27}
    /\ Len(rv_out[merged_file_name].rows) = 3
    /\ rv_out[merged_file_name].rows[1]["datetime"] = 25
    /\ rv_out[merged_file_name].rows[1][RvColumn(rv_all[2])].nan
    /\ ~rv_out[merged_file_name].rows[1][RvColumn(rv_all[1])].nan
    /\ rv_out[merged_file_name].rows[3][RvColumn(rv_all[1])].nan

\* the rivers of river_codes with no daily csv file in the tree
RvMissing ==
    {i \in DOMAIN river_codes :
        \A k \in DOMAIN rv_tree : rv_tree[k].name # DailyName(river_codes[i], C_csv)}

\* C17: if any river of river_codes has no matched file, whatever its place
\* in the list and whatever the other rivers hold, the stage ends with the
\* ValueError of that river and no merged table is written: the merged table
\* is only ever written when every river has a file, and the loop never
\* passes the first river without one, where the filter returns None.
C17_MissingRiverAbortsMerge ==
    /\ merged_file_name \in DOMAIN rv_out => RvMissing = {}
    /\ rv_pc = "done" => RvMissing = {}
    /\ (RvMissing # {} /\ rv_pc # "loop") =>
          /\ rv_pc = "aborted" /\ rv_err = "ValueError"
          /\ rv_idx \in RvMissing /\ \A i \in RvMissing : rv_idx <= i
    /\ (RvMissing # {} /\ rv_pc = "loop") =>
          /\ \A i \in RvMissing : rv_idx <= i
          /\ rv_idx \in RvMissing => filter_river_data(rv_tree, rv_code, 12).none

\* C17's case: the river without files is the last of the list, the excluded
\* station; the series of the others have been written, the merged table not.
C17_Witness ==
    /\ rv_pc = "aborted" /\ rv_err = "ValueError"
    /\ RvMissing = {Len(river_codes)}
    /\ \A i \in 1..(Len(river_codes) - 1) :
          /\ single_file_name(river_codes[i]) \in DOMAIN rv_out
          /\ rv_out[single_file_name(river_codes[i])].rows # <<>>
    /\ merged_file_name \notin DOMAIN rv_out

\* the rivers of river_codes that have a daily csv file in the tree, with
\* rows in it, of which none has both a battery of 12 or more and a level of
\* 0 or more
RvAllRejected ==
    {i \in DOMAIN river_codes :
        /\ i \notin RvMissing
        /\ \A k \in DOMAIN rv_tree :
              rv_tree[k].name = DailyName(river_codes[i], C_csv) =>
                  /\ rv_tree[k].rows # <<>>
                  /\ \A n \in DOMAIN rv_tree[k].rows :
                        rv_tree[k].rows[n].battery < 12 \/ rv_tree[k].rows[n].level < 0}

\* the name of the level column of the i-th river
RvLevelColumn(i) == "river" \o Join(river_codes[i]) \o "_level"

OcPath == Join(oc_path)
OcReturned == oc_pc = "done" /\ oc_image

\* The image paths whose name holds Protok_DD.MM.YYYY, and that date
OcDated ==
    {<<"./Protoci_maj/Protok_05.01.2025.jpg", "2025-01-05">>,
     <<"./Protoci_maj/Protok_05.01.20251.jpg", "2025-01-05">>,
     <<"./Protoci_maj/Protok_05.01.2025", "2025-01-05">>,
     <<"./Protoci_maj/xProtok_31.12.2024.jpg", "2024-12-31">>}
OcDates == {pd[2] : pd \in {x \in OcDated : x[1] = OcPath}}

\* <label>_DD.MM.YYYY.<ext>: a label, an underscore, the date, a dot and an
\* extension that end the name
OcNamedLabelDateExt(name) ==
    \E i \in 2..Len(name) :
        /\ name[i] = "_" /\ i + 12 <= Len(name)
        /\ \A k \in {1, 2, 4, 5, 7, 8, 9, 10} : IsDigit(name[i + k])
        /\ name[i + 3] = "." /\ name[i + 6] = "." /\ name[i + 11] = "."
        /\ \A k \in (i + 12)..Len(name) : name[k] # "." /\ name[k] # "_"

OcNumbers(page, i) ==
    LET n == IntToStr(i)
    IN  CASE page = "hourly" -> <<n \o ".1", n \o ".2", n \o ".3">>
          [] page = "header" /\ i = 1 -> <<"05.01", n \o ".5">>
          [] page = "header" /\ i > 1 -> <<n \o ".12", n \o ".5">>
          [] page = "mixed" /\ i % 4 = 1 -> <<n \o ".5", n \o ".25">>
          [] page = "mixed" /\ i % 4 = 3 -> <<n \o ".1", n \o ".2", n \o ".3">>
          [] OTHER -> <<>>

\* the places of the qualifying lines among the first n, and the k-th of them
OcQualifying(page, n) == {i \in 1..n : OcNumbers(page, i) # <<>>}
OcKth(page, n, k) ==
    CHOOSE i \in OcQualifying(page, n) :
        Cardinality({j \in OcQualifying(page, n) : j <= i}) = k

\* C19: for a name that holds the date, the rows are the first 24 qualifying
\* lines of the text in text order, all of them when fewer qualify; a line
\* qualifies iff it yields two numbers or more; a row is the date followed by
\* the first three numbers of its line at most, so 2 or 3 numbers.
C19_First24QualifyingLines ==
    (OcReturned /\ OcDates # {}) =>
        \A page \in OcrPages : \A n \in 0..Len(oc_lines) :
            oc_lines = PageLines(page, n) =>
                LET q == Cardinality(OcQualifying(page, n))
                IN  /\ Len(oc_ret.rows) = (IF q < 24 THEN q ELSE 24)
                    /\ \A k \in DOMAIN oc_ret.rows :
                          /\ oc_ret.rows[k][1] \in OcDates
                          /\ Tail(oc_ret.rows[k]) = OcNumbers(page, OcKth(page, n, k))
                          /\ Len(oc_ret.rows[k]) \in {3, 4}

\* C19's case: a text with more than 24 qualifying lines, of which the first
\* holds a date and a number, has given 24 rows, the last from line 24.
C19_Witness ==
    /\ OcReturned /\ OcDates # {}
    /\ Len(oc_lines) > 24
    /\ Len(oc_ret.rows) = 24
    /\ oc_ret.rows[1] = <<"2025-01-05", "05.01", "1.5">>
    /\ oc_ret.rows[24] = <<"2025-01-05", "24.12", "24.5">>

(***************************************************************************)
(* Claims about the climate-grid download loop (SpecCds).                  *)
(***************************************************************************)
\* the (year, month) pairs of the loop, and the place of a pair in ascending
\* order
CdPairs == {<<y, m>> : y \in 2020..(2019 + MaxYears), m \in 1..MaxMonths}
CdRank(pr) ==
    Cardinality({q \in CdPairs : q[1] < pr[1] \/ (q[1] = pr[1] /\ q[2] <= pr[2])})
CdOrder == [k \in 1..Cardinality(CdPairs) |-> CHOOSE pr \in CdPairs : CdRank(pr) = k]

\* the names of a pair, written out (months of one digit)
CdStem(pr) == "ERA5_" \o IntToStr(pr[1]) \o "_0" \o IntToStr(pr[2])
CdZipName(pr) == CdStem(pr) \o ".zip"
CdNcPath(pr) == "./ERA5_data/" \o IntToStr(pr[1]) \o "/" \o CdStem(pr) \o ".nc"

\* the zip and the .nc of the k-th pair, and the place of a zip
CdZips == [k \in DOMAIN CdOrder |-> CdZipName(CdOrder[k])]
CdNcs == [k \in DOMAIN CdOrder |-> CdNcPath(CdOrder[k])]
CdPlace(zip) == CHOOSE k \in DOMAIN CdZips : CdZips[k] = zip

\* the iterations that the run has gone through
CdPassed == 1..(cd_idx - 1)

\* C23, in every state: the iterations passed are the pairs in ascending
\* order and each has been extracted, downloaded in this run or not, to
\* ERA5_<year>_<MM>.nc in the folder of its year; the requests of the run are
\* in ascending order; nothing else is extracted; and a run that follows a
\* complete run issues no request, does not fail, and ends with one .nc file
\* per (year, month).
C23_EveryMonthExtracted ==
    /\ cd_extracts = [k \in CdPassed |-> CdZips[k]]
    /\ \A k \in CdPassed :
          /\ CdNcs[k] \in DOMAIN cd_ncs
          /\ cd_ncs[CdNcs[k]].of = CdZips[k]
    /\ DOMAIN cd_ncs \subseteq {CdNcs[k] : k \in DOMAIN CdNcs}
    /\ \A j \in DOMAIN cd_requests :
          /\ \E k \in DOMAIN CdZips : k <= cd_idx /\ cd_requests[j] = CdZips[k]
          /\ \A i \in 1..(j - 1) : CdPlace(cd_requests[i]) < CdPlace(cd_requests[j])
    /\ cd_completed =>
          /\ cd_requests = <<>> /\ cd_err = "none"
          /\ Cardinality(DOMAIN cd_ncs) = Cardinality(CdPairs)
          /\ cd_pc \in {"for", "extract", "done"}

\* C23, on every step: when an iteration is entered, a download request for
\* its zip is issued if and only if the zip does not exist at that moment,
\* and the iteration goes on to the extraction in both cases; requests are
\* issued nowhere else.
C23_RequestIffZipAbsent ==
    [][/\ (cd_pc = "for" /\ cd_pc' \in {"retrieve", "extract"}) =>
             LET z == CdZips[cd_idx]
             IN  IF z \notin DOMAIN cd_zips
                 THEN cd_requests' = Append(cd_requests, z) /\ cd_pc' = "retrieve"
                 ELSE cd_requests' = cd_requests /\ cd_pc' = "extract"
       /\ (cd_requests' # cd_requests /\ cd_requests' # <<>>) => cd_pc = "for"
       /\ (cd_pc = "retrieve" /\ cd_pc' # "retrieve") => cd_pc' \in {"extract", "aborted"}
       /\ (cd_pc = "extract" /\ cd_pc' = "for") =>
             /\ cd_zips' = cd_zips
             /\ cd_extracts' = Append(cd_extracts, CdZips[cd_idx])
             /\ cd_idx' = cd_idx + 1
      ]_vars

\* C23: in the download loop, for each (year, month) in ascending order a
\* request is issued iff the zip does not exist at that moment, the archive
\* is extracted to ERA5_<year>_<MM>.nc in the year folder whether or not a
\* request was issued, and a run after a complete run issues no request and
\* leaves one .nc file per (year, month).
C23_DownloadLoop == []C23_EveryMonthExtracted /\ C23_RequestIffZipAbsent

\* C23's case: the run after a complete run is over; it has issued no
\* request and extracted every archive again, one of them with two members,
\* of which the last is the one that stays.
C23_Witness ==
    /\ cd_run = 2 /\ cd_completed /\ cd_pc = "done"
    /\ cd_requests = <<>>
    /\ Len(cd_extracts) = Cardinality(CdPairs)
    /\ Cardinality(DOMAIN cd_ncs) = Cardinality(CdPairs)
    /\ cd_ncs["./ERA5_data/2020/ERA5_2020_01.nc"].name = "data_0.nc"
    /\ cd_ncs["./ERA5_data/2021/ERA5_2021_02.nc"].name = "data_1.nc"

====
